---- MODULE Spec2Model ----
(***************************************************************************)
(* Model of the mNAV valuation engine, src/src/mnav_calculator.py          *)
(* (class mNAVCalculator).                                                 *)
(*                                                                         *)
(* Numbers.  A Python/numpy float is modelled as an exact extended         *)
(* rational <<n, d>> in lowest terms with d >= 0:  d > 0 is the finite     *)
(* value n/d, <<1,0>> is +inf, <<-1,0>> is -inf and <<0,0>> is NaN.        *)
(* Rounding is not modelled.  None is the empty tuple.                     *)
(***************************************************************************)
EXTENDS Integers, Sequences, FiniteSets, TLC

(***************************************************************************)
(* Bounds of the model                                                     *)
(***************************************************************************)
\* balance-sheet cells take the values NaN, 0 .. MaxVal
MaxVal == 1
\* shares_outstanding ranges over -1 .. MaxShares
MaxShares == 2
\* property_fair_value / property_book_value range over None, 0 .. MaxFV
MaxFV == 2
\* deferred_tax_rate ranges over k/RateDen, k in 0 .. MaxRateNum
MaxRateNum == 1
\* the minority_interest argument ranges over None, 0 .. MaxMI
MaxMI == 1
\* a scenario map has at most MaxScen entries
MaxScen == 2
\* a balance sheet of several periods has at most MaxRows rows
MaxRows == 2
\* get_historical_data is called with max_retries in 0 .. MaxRetries
MaxRetries == 2
\* current prices range over 0 .. MaxPrice
MaxPrice == 21
\* reference values (mnav_per_share) range over -MaxNegRef .. MaxRef
MaxRef == 20
MaxNegRef == 5
\* price series have at most MaxLen rows
MaxLen == 2

(***************************************************************************)
(* Float arithmetic                                                        *)
(***************************************************************************)
Abs(x) == IF x < 0 THEN -x ELSE x

Sign(x) == IF x < 0 THEN -1 ELSE IF x > 0 THEN 1 ELSE 0

RECURSIVE GCD(_, _)
GCD(a, b) == IF b = 0 THEN a ELSE GCD(b, a % b)

Norm(n, d) ==
    IF d = 0 THEN <<Sign(n), 0>>
    ELSE LET g == GCD(Abs(n), Abs(d))
             s == IF d < 0 THEN -1 ELSE 1
         IN  <<(s * n) \div g, (s * d) \div g>>

Rat(n, d) == Norm(n, d)

Zero == <<0, 1>>

NaN == <<0, 0>>

None == <<>>

IsNaN(a) == a = NaN

IsInf(a) == a[2] = 0 /\ a[1] # 0

FNeg(a) == <<-a[1], a[2]>>

FAdd(a, b) ==
    IF IsNaN(a) \/ IsNaN(b) THEN NaN
    ELSE IF IsInf(a) /\ IsInf(b) THEN (IF a = b THEN a ELSE NaN)
    ELSE IF IsInf(a) THEN a
    ELSE IF IsInf(b) THEN b
    ELSE Norm(a[1] * b[2] + b[1] * a[2], a[2] * b[2])

FSub(a, b) == FAdd(a, FNeg(b))

FMul(a, b) ==
    IF IsNaN(a) \/ IsNaN(b) THEN NaN
    ELSE Norm(a[1] * b[1], a[2] * b[2])

\* IEEE division: x/0 is +-inf and 0/0 is NaN.  numpy divides this way; Python's
\* own `/` raises ZeroDivisionError on a zero divisor, which the callers model.
FDiv(a, b) ==
    IF IsNaN(a) \/ IsNaN(b) THEN NaN
    ELSE Norm(a[1] * b[2], a[2] * b[1])

\* a < b on floats: every comparison with NaN is False
FLess(a, b) ==
    /\ ~IsNaN(a)
    /\ ~IsNaN(b)
    /\ a # b
    /\ IF IsInf(a) THEN a[1] < 0
       ELSE IF IsInf(b) THEN b[1] > 0
       ELSE a[1] * b[2] < b[1] * a[2]

FLeq(a, b) == ~IsNaN(a) /\ ~IsNaN(b) /\ (a = b \/ FLess(a, b))

\* pd.notna(value)
notna(v) == ~IsNaN(v)

\* Python truthiness of an Optional[float]: None and 0 are falsy
Truthy(v) == v # None /\ v # Zero

\* `a or b` with only None taken as false
PyOr_none_only(a, b) == IF a # None THEN a ELSE b

\* Python `a or b`
PyOr(a, b) == IF Truthy(a) THEN a ELSE b

(***************************************************************************)
(* Outcomes of a call: a returned value or a raised exception              *)
(***************************************************************************)
Return(v) == [ok |-> TRUE, err |-> "", result |-> v]

Raise(e) == [ok |-> FALSE, err |-> e, result |-> None]

(***************************************************************************)
(* Balance sheets: a pandas DataFrame is a set of column names and a       *)
(* sequence of rows, each row a function from the columns to cells.        *)
(***************************************************************************)
ColumnNames == {"total_assets", "total_liabilities", "total_equity", "minority_interest"}

CellVals == {NaN} \cup {Rat(v, 1) : v \in 0 .. MaxVal}

RowSeqs(c) == {<<>>} \cup {<<row>> : row \in [c -> CellVals]}

Frames == UNION {{[cols |-> c, rows |-> r] : r \in RowSeqs(c)} : c \in SUBSET ColumnNames}

Shares == {Rat(n, 1) : n \in -1 .. MaxShares}

NoFrame == [cols |-> {}, rows |-> <<>>]

\* DataFrame.empty: some axis has length 0
empty(df) == df.cols = {} \/ Len(df.rows) = 0

(***************************************************************************)
(* str methods, tabulated on the keys the calculator asks for              *)
(***************************************************************************)
lower(key) == IF key = "Total_Assets" THEN "total_assets" ELSE key

upper(key) ==
    CASE key = "total_assets" -> "TOTAL_ASSETS"
      [] key = "total_liabilities" -> "TOTAL_LIABILITIES"
      [] key = "total_equity" -> "TOTAL_EQUITY"
      [] key = "shareholders_equity" -> "SHAREHOLDERS_EQUITY"
      [] key = "stockholders_equity" -> "STOCKHOLDERS_EQUITY"
      [] key = "minority_interest" -> "MINORITY_INTEREST"
      [] key = "Total_Assets" -> "TOTAL_ASSETS"

\* key.replace('_', '')
strip_underscore(key) ==
    CASE key = "total_assets" -> "totalassets"
      [] key = "total_liabilities" -> "totalliabilities"
      [] key = "total_equity" -> "totalequity"
      [] key = "shareholders_equity" -> "shareholdersequity"
      [] key = "stockholders_equity" -> "stockholdersequity"
      [] key = "minority_interest" -> "minorityinterest"
      [] key = "Total_Assets" -> "TotalAssets"

\* key.replace('_', ' ').title()
title(key) ==
    CASE key = "total_assets" -> "Total Assets"
      [] key = "total_liabilities" -> "Total Liabilities"
      [] key = "total_equity" -> "Total Equity"
      [] key = "shareholders_equity" -> "Shareholders Equity"
      [] key = "stockholders_equity" -> "Stockholders Equity"
      [] key = "minority_interest" -> "Minority Interest"
      [] key = "Total_Assets" -> "Total Assets"

key_variations(key) ==
    <<key, lower(key), upper(key), strip_underscore(key), title(key)>>

(***************************************************************************)
(* State                                                                   *)
(***************************************************************************)
VARIABLES
    constructed,          \* an mNAVCalculator instance exists
    balance_sheet,        \* self.balance_sheet
    shares_outstanding,   \* self.shares_outstanding
    latest_bs,            \* self.latest_bs
    last,                 \* the call just made: operation, arguments, outcome
    mnav_data,            \* the valuation record the caller holds (None: none yet)
    premium_data,         \* the premium/discount record the caller holds
    failed,               \* a premium/discount call on the instance has raised
    threads,              \* the calls in progress on concurrent threads
    fundamental_data,     \* FundamentalIndicators: fundamental_data.get('balance_sheet')
    price_data,           \* FundamentalIndicators: self.price_data
    use_sample_data,      \* StockDataFetcher: self.use_sample_data
    fetch,                \* the local variables of get_historical_data in progress
    trace                 \* the provider requests and sleeps of that call, in order

vars == <<constructed, balance_sheet, shares_outstanding, latest_bs, last,
          mnav_data, premium_data, failed, threads,
          fundamental_data, price_data, use_sample_data, fetch, trace>>

\* what belongs to the callers of the instance
callers == <<mnav_data, premium_data, failed, threads>>

\* the indicator object and the data fetcher around the calculator
collaborators == <<fundamental_data, price_data, use_sample_data, fetch, trace>>

\* no indicator object and no fetcher
NoCollaborators ==
    /\ fundamental_data = <<>>
    /\ price_data = <<>>
    /\ use_sample_data = FALSE
    /\ fetch = <<>>
    /\ trace = <<>>

NoCall == [op |-> "none", args |-> None, ok |-> TRUE, err |-> "", result |-> None]

Call(op, args, outcome) ==
    [op |-> op, args |-> args, ok |-> outcome.ok, err |-> outcome.err,
     result |-> outcome.result]

(***************************************************************************)
(* mNAVCalculator                                                          *)
(***************************************************************************)
\* init_checks with the share count tested by < instead of <=
init_checks_negative_only(bs, shares) ==
    IF empty(bs) THEN Raise("ValueError: Balance sheet cannot be empty")
    ELSE IF FLess(shares, Zero) THEN Raise("ValueError: Shares outstanding must be positive")
    ELSE Return(None)

\* the two checks of __init__; the outcome carries no value
init_checks(bs, shares) ==
    IF empty(bs) THEN Raise("ValueError: Balance sheet cannot be empty")
    ELSE IF FLeq(shares, Zero) THEN Raise("ValueError: Shares outstanding must be positive")
    ELSE Return(None)

\* the last row instead of the first
get_latest_balance_sheet_last(bs) == bs.rows[Len(bs.rows)]

\* balance_sheet.iloc[0]
get_latest_balance_sheet(bs) == bs.rows[1]

\* get_value_safe returning the value of the last spelling found
get_value_safe_last_match(bs_row, key, default) ==
    LET kv == key_variations(key)
        hits == {i \in 1 .. Len(kv) : kv[i] \in DOMAIN bs_row}
    IN  IF hits = {} THEN default
        ELSE LET final == CHOOSE i \in hits : \A j \in hits : j <= i
                 value == bs_row[kv[final]]
             IN  IF notna(value) THEN value ELSE default

\* get_value_safe without the pd.notna test
get_value_safe_no_notna(bs_row, key, default) ==
    LET kv == key_variations(key)
        hits == {i \in 1 .. Len(kv) : kv[i] \in DOMAIN bs_row}
    IN  IF hits = {} THEN default
        ELSE bs_row[kv[CHOOSE i \in hits : \A j \in hits : i <= j]]

get_value_safe(bs_row, key, default) ==
    LET kv == key_variations(key)
        hits == {i \in 1 .. Len(kv) : kv[i] \in DOMAIN bs_row}
    IN  IF hits = {} THEN default
        ELSE LET first == CHOOSE i \in hits : \A j \in hits : i <= j
                 value == bs_row[kv[first]]
             IN  IF notna(value) THEN value ELSE default

\* basic_nav_total taking the book equity for the net asset value
basic_nav_total_equity(total_assets, total_liabilities, equity) == equity

\* nav = total_assets - total_liabilities
basic_nav_total(total_assets, total_liabilities, equity) ==
    FSub(total_assets, total_liabilities)

calculate_basic_nav(bs_row, shares) ==
    LET total_assets == get_value_safe(bs_row, "total_assets", Zero)
        total_liabilities == get_value_safe(bs_row, "total_liabilities", Zero)
        equity ==
            PyOr(get_value_safe(bs_row, "total_equity", Zero),
            PyOr(get_value_safe(bs_row, "shareholders_equity", Zero),
            PyOr(get_value_safe(bs_row, "stockholders_equity", Zero),
                 FSub(total_assets, total_liabilities))))
        nav == basic_nav_total(total_assets, total_liabilities, equity)
    IN  IF shares = Zero THEN Raise("ZeroDivisionError")
        ELSE Return([nav |-> nav,
                     nav_per_share |-> FDiv(nav, shares),
                     total_assets |-> total_assets,
                     total_liabilities |-> total_liabilities,
                     book_value_equity |-> equity,
                     shares_outstanding |-> shares,
                     calculation_type |-> "Basic NAV (Book Value)"])

\* revaluation with the book value not subtracted
revaluation_no_book(property_fair_value, property_book_value, total_assets) ==
    IF Truthy(property_fair_value) /\ Truthy(property_book_value)
    THEN <<property_fair_value, FAdd(total_assets, property_fair_value)>>
    ELSE <<Zero, total_assets>>

\* the revaluation branch: <<revaluation_gain, adjusted_assets>>
revaluation(property_fair_value, property_book_value, total_assets) ==
    IF Truthy(property_fair_value) /\ Truthy(property_book_value)
    THEN LET revaluation_gain == FSub(property_fair_value, property_book_value)
         IN  <<revaluation_gain, FAdd(total_assets, revaluation_gain)>>
    ELSE <<Zero, total_assets>>

\* the minority interest taken from the argument only when it is truthy
minority_choice_truthy(mi_arg, from_sheet) == IF Truthy(mi_arg) THEN mi_arg ELSE from_sheet

\* if minority_interest is None: minority_interest = self._get_value_safe(...)
minority_choice(mi_arg, from_sheet) == IF mi_arg = None THEN from_sheet ELSE mi_arg

\* mnav_total with the minority interest not deducted
mnav_total_no_minority(adjusted_assets, total_liabilities, minority_interest, deferred_tax_adjustment) ==
    FSub(FSub(adjusted_assets, total_liabilities), deferred_tax_adjustment)

\* mnav_total with the deferred tax not deducted
mnav_total_no_tax(adjusted_assets, total_liabilities, minority_interest, deferred_tax_adjustment) ==
    FSub(FSub(adjusted_assets, total_liabilities), minority_interest)

\* mnav = adjusted_assets - total_liabilities - minority_interest - deferred_tax_adjustment
mnav_total(adjusted_assets, total_liabilities, minority_interest, deferred_tax_adjustment) ==
    FSub(FSub(FSub(adjusted_assets, total_liabilities), minority_interest),
         deferred_tax_adjustment)

calculate_mnav_with_fair_value(bs_row, shares, property_fair_value, property_book_value, deferred_tax_rate, mi_arg) ==
    LET total_assets == get_value_safe(bs_row, "total_assets", Zero)
        total_liabilities == get_value_safe(bs_row, "total_liabilities", Zero)
        minority_interest ==
            minority_choice(mi_arg, get_value_safe(bs_row, "minority_interest", Zero))
        rv == revaluation(property_fair_value, property_book_value, total_assets)
        revaluation_gain == rv[1]
        adjusted_assets == rv[2]
        deferred_tax_adjustment == FMul(revaluation_gain, deferred_tax_rate)
        mnav == mnav_total(adjusted_assets, total_liabilities, minority_interest,
                           deferred_tax_adjustment)
    IN  IF shares = Zero THEN Raise("ZeroDivisionError")
        ELSE Return([mnav |-> mnav,
                     mnav_per_share |-> FDiv(mnav, shares),
                     adjusted_assets |-> adjusted_assets,
                     total_assets |-> total_assets,
                     total_liabilities |-> total_liabilities,
                     minority_interest |-> minority_interest,
                     property_fair_value |->
                         PyOr(property_fair_value, PyOr(property_book_value, Zero)),
                     property_book_value |-> PyOr(property_book_value, Zero),
                     revaluation_gain |-> revaluation_gain,
                     deferred_tax_rate |-> deferred_tax_rate,
                     deferred_tax_adjustment |-> deferred_tax_adjustment,
                     shares_outstanding |-> shares,
                     calculation_type |-> "Modified NAV (Fair Value Adjusted)"])

\* reference_rejected testing for zero only
reference_rejected_zero_only(mnav_per_share) == mnav_per_share = Zero

\* the guard of calculate_premium_discount
reference_rejected(mnav_per_share) == FLeq(mnav_per_share, Zero)

PremiumThreshold == 5

DiscountThreshold == -5

\* interpret with inclusive thresholds
interpret_inclusive(premium_discount_pct) ==
    IF FLeq(Rat(5, 1), premium_discount_pct)
    THEN <<"Trading at Premium", "overvalued">>
    ELSE IF FLeq(premium_discount_pct, Rat(-5, 1))
    THEN <<"Trading at Discount", "undervalued">>
    ELSE <<"Trading near Fair Value", "fairly_valued">>

\* <<interpretation, status>>
interpret(premium_discount_pct) ==
    IF FLess(Rat(PremiumThreshold, 1), premium_discount_pct)
    THEN <<"Trading at Premium", "overvalued">>
    ELSE IF FLess(premium_discount_pct, Rat(DiscountThreshold, 1))
    THEN <<"Trading at Discount", "undervalued">>
    ELSE <<"Trading near Fair Value", "fairly_valued">>

calculate_premium_discount(current_price, mnav_per_share) ==
    IF reference_rejected(mnav_per_share)
    THEN Raise("ValueError: mNAV per share must be positive")
    ELSE IF mnav_per_share = Zero THEN Raise("ZeroDivisionError")
    ELSE LET p_mnav_ratio == FDiv(current_price, mnav_per_share)
             premium_discount_pct ==
                 FMul(FDiv(FSub(current_price, mnav_per_share), mnav_per_share),
                      Rat(100, 1))
             premium_discount_amount == FSub(current_price, mnav_per_share)
             it == interpret(premium_discount_pct)
         IN  Return([current_price |-> current_price,
                     mnav_per_share |-> mnav_per_share,
                     p_mnav_ratio |-> p_mnav_ratio,
                     premium_discount_pct |-> premium_discount_pct,
                     premium_discount_amount |-> premium_discount_amount,
                     interpretation |-> it[1],
                     status |-> it[2]])

(***************************************************************************)
(* Price frames: an index and named columns, each a sequence of the        *)
(* index's length.                                                         *)
(***************************************************************************)
\* df[name] = values
set_column(df, name, values) ==
    [df EXCEPT !.cols = [c \in (DOMAIN df.cols) \cup {name} |->
                            IF c = name THEN values ELSE df.cols[c]]]

\* row_ratio with the quotient inverted
row_ratio_inverted(price, mnav_per_share) == FDiv(mnav_per_share, price)

\* p_mnav_ratio of one row
row_ratio(price, mnav_per_share) == FDiv(price, mnav_per_share)

\* premium_discount_pct of one row
row_pct(price, mnav_per_share) ==
    FMul(FDiv(FSub(price, mnav_per_share), mnav_per_share), Rat(100, 1))

\* valuation_status with inclusive thresholds
valuation_status_inclusive(x) ==
    IF FLeq(Rat(5, 1), x) THEN "premium"
    ELSE IF FLeq(x, Rat(-5, 1)) THEN "discount"
    ELSE "fair"

\* the lambda applied to premium_discount_pct
valuation_status(x) ==
    IF FLess(Rat(5, 1), x) THEN "premium"
    ELSE IF FLess(x, Rat(-5, 1)) THEN "discount"
    ELSE "fair"

calculate_historical_mnav(historical_prices, mnav_per_share, price_column) ==
    IF price_column \notin DOMAIN historical_prices.cols THEN Raise("KeyError")
    ELSE
    LET n == Len(historical_prices.index)
        df0 == historical_prices
        df1 == set_column(df0, "mnav_per_share", [i \in 1 .. n |-> mnav_per_share])
        df2 == set_column(df1, "p_mnav_ratio",
                   [i \in 1 .. n |-> row_ratio(df1.cols[price_column][i], mnav_per_share)])
        df3 == set_column(df2, "premium_discount_pct",
                   [i \in 1 .. n |-> row_pct(df2.cols[price_column][i], mnav_per_share)])
        df4 == set_column(df3, "premium_discount_amount",
                   [i \in 1 .. n |-> FSub(df3.cols[price_column][i], mnav_per_share)])
        df5 == set_column(df4, "valuation_status",
                   [i \in 1 .. n |-> valuation_status(df4.cols["premium_discount_pct"][i])])
    IN  Return(df5)

\* results.append(row), with the row put in front
append_result_in_front(results, row) == <<row>> \o results

\* results.append(row)
append_result(results, row) == Append(results, row)

\* one row of the comparison table
scenario_row(scenario_name, mnav_value, current_price, prem_disc) ==
    [Scenario |-> scenario_name,
     mNAV_per_Share |-> mnav_value,
     Current_Price |-> current_price,
     P_mNAV_Ratio |-> prem_disc.p_mnav_ratio,
     Premium_Discount_pct |-> prem_disc.premium_discount_pct,
     Status |-> prem_disc.status]

\* a failing scenario skipped, the rows collected so far kept
scenario_failure_keeps_rows(err, results) == Return(results)

\* an exception of calculate_premium_discount inside the loop is not caught:
\* the rows collected so far are lost
scenario_failure(err, results) == Raise(err)

\* the loop over scenarios.items(), from entry i on: an exception of
\* calculate_premium_discount leaves the loop and the method
RECURSIVE scenario_loop(_, _, _, _)
scenario_loop(current_price, scenarios, i, results) ==
    IF i > Len(scenarios) THEN Return(results)
    ELSE LET prem_disc == calculate_premium_discount(current_price, scenarios[i][2])
         IN  IF ~prem_disc.ok THEN scenario_failure(prem_disc.err, results)
             ELSE scenario_loop(current_price, scenarios, i + 1,
                      append_result(results,
                          scenario_row(scenarios[i][1], scenarios[i][2], current_price,
                                       prem_disc.result)))

\* scenarios: a dict in insertion order, a sequence of <<name, value>>;
\* the returned DataFrame is the sequence of its rows
compare_multiple_valuations(current_price, scenarios) ==
    scenario_loop(current_price, scenarios, 1, <<>>)

\* dict.get(key, default)
dict_get(d, key, default) == IF key \in DOMAIN d THEN d[key] ELSE default

\* the keys get_mnav_summary reads by subscript
summary_mnav_keys == {"mnav_per_share", "total_liabilities", "mnav", "shares_outstanding"}

summary_premium_keys ==
    {"current_price", "p_mnav_ratio", "premium_discount_pct", "interpretation"}

summary_fair_value_keys ==
    {"property_fair_value", "property_book_value", "revaluation_gain",
     "deferred_tax_rate", "deferred_tax_adjustment"}

\* the summary text, as the sequence of its <<label, value>> lines; the number
\* formats are not modelled
get_mnav_summary(mnav, premium) ==
    LET with_fair_value == dict_get(mnav, "revaluation_gain", Zero) # Zero
        needed == summary_mnav_keys
                      \cup (IF with_fair_value THEN summary_fair_value_keys ELSE {})
    IN  IF ~(needed \subseteq DOMAIN mnav) \/ ~(summary_premium_keys \subseteq DOMAIN premium)
        THEN Raise("KeyError")
        ELSE Return(
            <<<<"mNAV per Share", mnav["mnav_per_share"]>>,
              <<"Current Market Price", premium["current_price"]>>,
              <<"P/mNAV Ratio", premium["p_mnav_ratio"]>>,
              <<"Premium/Discount", premium["premium_discount_pct"]>>,
              <<"Status", premium["interpretation"]>>,
              <<"Total Assets",
                dict_get(mnav, "adjusted_assets", dict_get(mnav, "total_assets", None))>>,
              <<"Total Liabilities", mnav["total_liabilities"]>>,
              <<"Minority Interest", dict_get(mnav, "minority_interest", Zero)>>,
              <<"Net Asset Value", mnav["mnav"]>>>>
            \o (IF with_fair_value
                THEN <<<<"Property Fair Value", mnav["property_fair_value"]>>,
                       <<"Property Book Value", mnav["property_book_value"]>>,
                       <<"Revaluation Gain", mnav["revaluation_gain"]>>,
                       <<"Deferred Tax rate %", FMul(mnav["deferred_tax_rate"], Rat(100, 1))>>,
                       <<"Deferred Tax", mnav["deferred_tax_adjustment"]>>>>
                ELSE <<>>)
            \o <<<<"Shares Outstanding", mnav["shares_outstanding"]>>,
                 <<"Total Market Cap",
                   FMul(premium["current_price"], mnav["shares_outstanding"])>>,
                 <<"Total mNAV", mnav["mnav"]>>>>)

(***************************************************************************)
(* Inputs                                                                  *)
(***************************************************************************)
OptVals(max) == {None} \cup {Rat(v, 1) : v \in 0 .. max}

RateDen == 10

Rates == {Rat(k, RateDen) : k \in 0 .. MaxRateNum}

Prices == {Rat(p, 1) : p \in 0 .. MaxPrice}

Refs == {Rat(r, 1) : r \in (-MaxNegRef) .. MaxRef}

\* prices of a series: 0 and the prices around the largest reference value
SeriesPrices == {Rat(p, 1) : p \in {0} \cup ((MaxPrice - 2) .. MaxPrice)}

SeriesOfLen(n) == [1 .. n -> SeriesPrices]

\* the index of a price frame: dates ascending or descending
Indexes(n) == {[i \in 1 .. n |-> i], [i \in 1 .. n |-> n + 1 - i]}

PriceFrames ==
    UNION {{[index |-> idx, cols |-> [c \in {"close"} |-> s]] :
               idx \in Indexes(n), s \in SeriesOfLen(n)} : n \in 0 .. MaxLen}

ScenarioLabels == {"Conservative", "Base Case", "Optimistic"}

\* candidate valuations: two that are rejected and the two largest reference values
ScenarioVals == {Rat(v, 1) : v \in {-1, 0} \cup ((MaxRef - 1) .. MaxRef)}

\* dicts of n entries: distinct labels in any order
ScenarioMapsOfLen(n) ==
    {[i \in 1 .. n |-> <<l[i], v[i]>>] :
        l \in {f \in [1 .. n -> ScenarioLabels] : \A i, j \in 1 .. n : f[i] = f[j] => i = j},
        v \in [1 .. n -> ScenarioVals]}

ScenarioMaps == UNION {ScenarioMapsOfLen(n) : n \in 0 .. MaxScen}

\* the keys the calculator asks for
CanonicalKeys ==
    {"total_assets", "total_liabilities", "total_equity", "shareholders_equity",
     "stockholders_equity", "minority_interest"}

\* the keys a caller of the resolver asks for, and the defaults it passes
ResolverKeys == CanonicalKeys \cup {"Total_Assets"}

Defaults == {Zero, Rat(-1, 1)}

\* one-row frames over the non-empty subsets of a set of column names
OneRowFrames(names) ==
    UNION {{[cols |-> c, rows |-> <<row>>] : row \in [c -> CellVals]} :
              c \in (SUBSET names) \ {{}}}

\* the spellings under which data sources name total assets
SpellingNames ==
    {"Total_Assets", "total_assets", "TOTAL_ASSETS", "TotalAssets", "totalassets",
     "Total Assets"}

\* assets, liabilities and the three names of equity
EquityNames ==
    {"total_assets", "total_liabilities", "total_equity", "shareholders_equity",
     "stockholders_equity"}

SnapshotFrames == OneRowFrames(SpellingNames) \cup OneRowFrames(EquityNames)

\* balance sheets of several periods: the latest period first, every earlier
\* period holding one value in all its cells
HistoryFrames ==
    {[cols |-> ColumnNames,
      rows |-> <<first>> \o [i \in 1 .. (n - 1) |-> [c \in ColumnNames |-> v]]] :
        first \in [ColumnNames -> CellVals], v \in CellVals, n \in 2 .. MaxRows}

\* the self-test's balance sheet and share count, in units of 10,000,000
SampleFrame ==
    [cols |-> {"total_assets", "total_liabilities", "minority_interest"},
     rows |-> <<[c \in {"total_assets", "total_liabilities", "minority_interest"} |->
                   CASE c = "total_assets" -> Rat(100, 1)
                     [] c = "total_liabilities" -> Rat(60, 1)
                     [] c = "minority_interest" -> Rat(5, 1)]>>]

SampleShares == Rat(1, 1)

(***************************************************************************)
(* Actions                                                                 *)
(***************************************************************************)
Idle == last = NoCall

Init ==
    /\ constructed = FALSE
    /\ balance_sheet = NoFrame
    /\ shares_outstanding = Zero
    /\ latest_bs = <<>>
    /\ last = NoCall
    /\ mnav_data = None
    /\ premium_data = None
    /\ failed = FALSE
    /\ threads = <<>>
    /\ NoCollaborators

\* mNAVCalculator(bs, shares)
Construct ==
    /\ Idle
    /\ ~constructed
    /\ \E bs \in Frames, shares \in Shares :
          LET out == init_checks(bs, shares)
          IN  /\ last' = Call("__init__", [balance_sheet |-> bs, shares_outstanding |-> shares], out)
              /\ IF out.ok
                 THEN /\ constructed' = TRUE
                      /\ balance_sheet' = bs
                      /\ shares_outstanding' = shares
                      /\ latest_bs' = get_latest_balance_sheet(bs)
                 ELSE UNCHANGED <<constructed, balance_sheet, shares_outstanding, latest_bs>>
    /\ UNCHANGED callers
    /\ UNCHANGED collaborators

\* calc._get_value_safe(key, default)
GetValueSafe ==
    /\ Idle
    /\ constructed
    /\ \E key \in ResolverKeys, default \in Defaults :
          last' = Call("_get_value_safe", [key |-> key, default |-> default],
                       Return(get_value_safe(latest_bs, key, default)))
    /\ UNCHANGED <<constructed, balance_sheet, shares_outstanding, latest_bs>>
    /\ UNCHANGED callers
    /\ UNCHANGED collaborators

CalculateBasicNav ==
    /\ Idle
    /\ constructed
    /\ last' = Call("calculate_basic_nav", None,
                    calculate_basic_nav(latest_bs, shares_outstanding))
    /\ UNCHANGED <<constructed, balance_sheet, shares_outstanding, latest_bs>>
    /\ UNCHANGED callers
    /\ UNCHANGED collaborators

CalculateMnavWithFairValue ==
    /\ Idle
    /\ constructed
    /\ \E fv \in OptVals(MaxFV), bv \in OptVals(MaxFV), rate \in Rates, mi \in OptVals(MaxMI) :
          last' = Call("calculate_mnav_with_fair_value",
                       [property_fair_value |-> fv, property_book_value |-> bv,
                        deferred_tax_rate |-> rate, minority_interest |-> mi],
                       calculate_mnav_with_fair_value(latest_bs, shares_outstanding,
                                                      fv, bv, rate, mi))
    /\ UNCHANGED <<constructed, balance_sheet, shares_outstanding, latest_bs>>
    /\ UNCHANGED callers
    /\ UNCHANGED collaborators

CalculatePremiumDiscount ==
    /\ Idle
    /\ constructed
    /\ \E price \in Prices, ref \in Refs :
          last' = Call("calculate_premium_discount",
                       [current_price |-> price, mnav_per_share |-> ref],
                       calculate_premium_discount(price, ref))
    /\ UNCHANGED <<constructed, balance_sheet, shares_outstanding, latest_bs>>
    /\ UNCHANGED callers
    /\ UNCHANGED collaborators

CalculateHistoricalMnav ==
    /\ Idle
    /\ constructed
    /\ \E df \in PriceFrames, ref \in Refs :
          last' = Call("calculate_historical_mnav",
                       [historical_prices |-> df, mnav_per_share |-> ref,
                        price_column |-> "close"],
                       calculate_historical_mnav(df, ref, "close"))
    /\ UNCHANGED <<constructed, balance_sheet, shares_outstanding, latest_bs>>
    /\ UNCHANGED callers
    /\ UNCHANGED collaborators

CompareMultipleValuations ==
    /\ Idle
    /\ constructed
    /\ \E price \in SeriesPrices, scenarios \in ScenarioMaps :
          last' = Call("compare_multiple_valuations",
                       [current_price |-> price, scenarios |-> scenarios],
                       compare_multiple_valuations(price, scenarios))
    /\ UNCHANGED <<constructed, balance_sheet, shares_outstanding, latest_bs>>
    /\ UNCHANGED callers
    /\ UNCHANGED collaborators

\* the caller takes the outcome of the call and goes on to its next call
Consume ==
    /\ ~Idle
    /\ last' = NoCall
    /\ UNCHANGED <<constructed, balance_sheet, shares_outstanding, latest_bs>>
    /\ UNCHANGED callers
    /\ UNCHANGED collaborators

\* the valuation calculator: construction and the two valuations
Next ==
    \/ Construct
    \/ GetValueSafe
    \/ CalculateBasicNav
    \/ CalculateMnavWithFairValue
    \/ Consume

Spec == Init /\ [][Next]_vars

\* the premium/discount logic and the series projector, on the self-test's instance
InitProjector ==
    /\ constructed = TRUE
    /\ balance_sheet = SampleFrame
    /\ shares_outstanding = SampleShares
    /\ latest_bs = get_latest_balance_sheet(SampleFrame)
    /\ last = NoCall
    /\ mnav_data = None
    /\ premium_data = None
    /\ failed = FALSE
    /\ threads = <<>>
    /\ NoCollaborators

NextProjector ==
    \/ CalculatePremiumDiscount
    \/ CalculateHistoricalMnav
    \/ CompareMultipleValuations
    \/ Consume

SpecProjector == InitProjector /\ [][NextProjector]_vars

\* an instance built from the balance sheet bs and the self-test's share count
Instance(bs) ==
    /\ constructed = TRUE
    /\ balance_sheet = bs
    /\ shares_outstanding = SampleShares
    /\ latest_bs = get_latest_balance_sheet(bs)
    /\ last = NoCall
    /\ mnav_data = None
    /\ premium_data = None
    /\ failed = FALSE
    /\ NoCollaborators

\* the instance with one caller and no threads
BuiltFrom(bs) == Instance(bs) /\ threads = <<>>

\* the field resolver and the book equity, on balance sheets of every spelling
InitSnapshots == \E bs \in SnapshotFrames : BuiltFrom(bs)

NextSnapshots ==
    \/ GetValueSafe
    \/ CalculateBasicNav
    \/ Consume

SpecSnapshots == InitSnapshots /\ [][NextSnapshots]_vars

\* the valuations on balance sheets of several periods
InitHistory == \E bs \in HistoryFrames : BuiltFrom(bs)

NextHistory ==
    \/ CalculateBasicNav
    \/ CalculateMnavWithFairValue
    \/ Consume

SpecHistory == InitHistory /\ [][NextHistory]_vars

(***************************************************************************)
(* Concurrent calls on one instance.  A call runs on a thread of its own;  *)
(* its local variables are the thread's, and each read of an attribute of  *)
(* the instance (a field through _get_value_safe, or the share count) is   *)
(* one step that other threads may interleave with.                        *)
(***************************************************************************)
\* the number of threads calling the instance
NumThreads == 2

Threads == 1 .. NumThreads

\* a second balance sheet, with a null field and an equity of 0
SparseFrame ==
    [cols |-> ColumnNames,
     rows |-> <<[c \in ColumnNames |->
                   CASE c = "total_assets" -> Rat(1, 1)
                     [] c = "total_liabilities" -> NaN
                     [] c = "total_equity" -> Zero
                     [] c = "minority_interest" -> Rat(1, 1)]>>]

ThreadFrames == {SampleFrame, SparseFrame}

\* the calls a thread makes
ThreadCalls ==
    {[op |-> "calculate_basic_nav", args |-> <<>>]}
    \cup {[op |-> "calculate_mnav_with_fair_value",
           args |-> [property_fair_value |-> fv[1], property_book_value |-> fv[2],
                     deferred_tax_rate |-> Rat(1, RateDen), minority_interest |-> mi]] :
             fv \in {<<None, None>>, <<Rat(2, 1), Rat(1, 1)>>}, mi \in {None, Zero}}
    \cup {[op |-> "calculate_premium_discount",
           args |-> [current_price |-> Rat(50, 1), mnav_per_share |-> ref]] :
             ref \in {Zero, Rat(35, 1)}}

IdleThread == [pc |-> "idle", op |-> "", args |-> <<>>, locals |-> <<>>, result |-> None]

\* the attributes a call reads, in the order of its code, given what it has
\* read so far
reads_of(op, args, locals) ==
    CASE op = "calculate_basic_nav" ->
            <<"total_assets", "total_liabilities", "total_equity">>
            \o (IF "total_equity" \in DOMAIN locals /\ ~Truthy(locals["total_equity"])
                THEN <<"shareholders_equity">>
                     \o (IF "shareholders_equity" \in DOMAIN locals
                            /\ ~Truthy(locals["shareholders_equity"])
                         THEN <<"stockholders_equity">>
                         ELSE <<>>)
                ELSE <<>>)
            \o <<"shares_outstanding", "shares_outstanding_reported">>
      [] op = "calculate_mnav_with_fair_value" ->
            <<"total_assets", "total_liabilities">>
            \o (IF args.minority_interest = None THEN <<"minority_interest">> ELSE <<>>)
            \o <<"shares_outstanding", "shares_outstanding_reported">>
      [] OTHER -> <<>>

\* the positions in reads_of of the attributes not read yet
pending(op, args, locals) ==
    {i \in 1 .. Len(reads_of(op, args, locals)) :
        reads_of(op, args, locals)[i] \notin DOMAIN locals}

\* the next attribute to read
next_read(op, args, locals) ==
    LET todo == pending(op, args, locals)
    IN  reads_of(op, args, locals)[CHOOSE i \in todo : \A j \in todo : i <= j]

\* one read of the instance
read_shared(field) ==
    IF field \in {"shares_outstanding", "shares_outstanding_reported"}
    THEN shares_outstanding
    ELSE get_value_safe(latest_bs, field, Zero)

\* a valuation record with the share count of the second read
with_reported_shares(out, locals) ==
    IF out.ok
    THEN Return([out.result EXCEPT !.shares_outstanding = locals["shares_outstanding_reported"]])
    ELSE out

\* the arithmetic of a call on the values it has read
finish(op, args, locals) ==
    LET row == [f \in (DOMAIN locals) \cap CanonicalKeys |-> locals[f]]
    IN  CASE op = "calculate_basic_nav" ->
                with_reported_shares(
                    calculate_basic_nav(row, locals["shares_outstanding"]), locals)
          [] op = "calculate_mnav_with_fair_value" ->
                with_reported_shares(
                    calculate_mnav_with_fair_value(
                        row, locals["shares_outstanding"], args.property_fair_value,
                        args.property_book_value, args.deferred_tax_rate,
                        args.minority_interest), locals)
          [] op = "calculate_premium_discount" ->
                calculate_premium_discount(args.current_price, args.mnav_per_share)

InitThreads ==
    /\ \E bs \in ThreadFrames : Instance(bs)
    /\ threads = [t \in Threads |-> IdleThread]

\* a call that keeps a supplied minority interest in the instance
ThreadCall_storing_override(t) ==
    /\ threads[t].pc = "idle"
    /\ \E c \in ThreadCalls :
          /\ threads' = [threads EXCEPT ![t] =
                            [pc |-> "running", op |-> c.op, args |-> c.args,
                             locals |-> <<>>, result |-> None]]
          /\ latest_bs' =
                IF c.op = "calculate_mnav_with_fair_value" /\ c.args.minority_interest # None
                THEN [f \in (DOMAIN latest_bs) \cup {"minority_interest"} |->
                        IF f = "minority_interest" THEN c.args.minority_interest
                        ELSE latest_bs[f]]
                ELSE latest_bs
    /\ UNCHANGED <<constructed, balance_sheet, shares_outstanding>>
    /\ UNCHANGED <<last, mnav_data, premium_data, failed>>
    /\ UNCHANGED collaborators

\* thread t enters a method of the instance
ThreadCall(t) ==
    /\ threads[t].pc = "idle"
    /\ \E c \in ThreadCalls :
          threads' = [threads EXCEPT ![t] =
                         [pc |-> "running", op |-> c.op, args |-> c.args,
                          locals |-> <<>>, result |-> None]]
    /\ UNCHANGED <<constructed, balance_sheet, shares_outstanding, latest_bs>>
    /\ UNCHANGED <<last, mnav_data, premium_data, failed>>
    /\ UNCHANGED collaborators

\* thread t reads the next attribute into a local variable
ThreadRead(t) ==
    /\ threads[t].pc = "running"
    /\ pending(threads[t].op, threads[t].args, threads[t].locals) # {}
    /\ LET field == next_read(threads[t].op, threads[t].args, threads[t].locals)
       IN  threads' = [threads EXCEPT ![t].locals =
                          [f \in (DOMAIN @) \cup {field} |->
                              IF f = field THEN read_shared(field) ELSE @[f]]]
    /\ UNCHANGED <<constructed, balance_sheet, shares_outstanding, latest_bs>>
    /\ UNCHANGED <<last, mnav_data, premium_data, failed>>
    /\ UNCHANGED collaborators

\* thread t computes on its local variables and returns
ThreadReturn(t) ==
    /\ threads[t].pc = "running"
    /\ pending(threads[t].op, threads[t].args, threads[t].locals) = {}
    /\ threads' = [threads EXCEPT
                      ![t].pc = "done",
                      ![t].result = finish(threads[t].op, threads[t].args, threads[t].locals)]
    /\ UNCHANGED <<constructed, balance_sheet, shares_outstanding, latest_bs>>
    /\ UNCHANGED <<last, mnav_data, premium_data, failed>>
    /\ UNCHANGED collaborators

\* the caller on thread t takes the result
ThreadJoin(t) ==
    /\ threads[t].pc = "done"
    /\ threads' = [threads EXCEPT ![t] = IdleThread]
    /\ UNCHANGED <<constructed, balance_sheet, shares_outstanding, latest_bs>>
    /\ UNCHANGED <<last, mnav_data, premium_data, failed>>
    /\ UNCHANGED collaborators

NextThreads ==
    \/ \E t \in Threads : ThreadCall(t)
    \/ \E t \in Threads : ThreadRead(t)
    \/ \E t \in Threads : ThreadReturn(t)
    \/ \E t \in Threads : ThreadJoin(t)

SpecThreads == InitThreads /\ [][NextThreads]_vars

(***************************************************************************)
(* FundamentalIndicators: the indicator object that owns a calculator.     *)
(* self.mnav_calculator is the instance of the variables constructed,      *)
(* balance_sheet, shares_outstanding and latest_bs; constructed = FALSE is *)
(* self.mnav_calculator = None.                                            *)
(***************************************************************************)
\* setup_mnav_calculator up to the assignment of self.mnav_calculator
setup_checks(bs, shares) ==
    IF bs = None
    THEN Raise("ValueError: Balance sheet data is required for mNAV calculation")
    ELSE IF empty(bs)
    THEN Raise("ValueError: Balance sheet data is required for mNAV calculation")
    ELSE init_checks(bs, shares)

\* the valuation get_mnav_analysis asks of the calculator
analysis_valuation(bs_row, shares, property_fair_value, property_book_value, deferred_tax_rate) ==
    IF Truthy(property_fair_value) /\ Truthy(property_book_value)
    THEN calculate_mnav_with_fair_value(bs_row, shares, property_fair_value,
                                        property_book_value, deferred_tax_rate, None)
    ELSE calculate_basic_nav(bs_row, shares)

\* get_mnav_analysis after the valuation: the subscript mnav_data['mnav_per_share']
\* and the three calls that use it
analysis_of(valuation, prices, current_price) ==
    IF ~valuation.ok THEN Raise(valuation.err)
    ELSE IF "mnav_per_share" \notin DOMAIN valuation.result
    THEN Raise("KeyError: 'mnav_per_share'")
    ELSE LET ref == valuation.result["mnav_per_share"]
             premium == calculate_premium_discount(current_price, ref)
             historical == calculate_historical_mnav(prices, ref, "close")
         IN  IF ~premium.ok THEN Raise(premium.err)
             ELSE IF ~historical.ok THEN Raise(historical.err)
             ELSE LET summary == get_mnav_summary(valuation.result, premium.result)
                  IN  IF ~summary.ok THEN Raise(summary.err)
                      ELSE Return([mnav_data |-> valuation.result,
                                   premium_data |-> premium.result,
                                   historical_mnav |-> historical.result,
                                   summary |-> summary.result])

get_mnav_analysis(has_calculator, bs_row, shares, prices, current_price, property_fair_value, property_book_value, deferred_tax_rate) ==
    IF ~has_calculator
    THEN Raise("ValueError: Please call setup_mnav_calculator() first")
    ELSE analysis_of(analysis_valuation(bs_row, shares, property_fair_value,
                                        property_book_value, deferred_tax_rate),
                     prices, current_price)

\* what fundamental_data.get('balance_sheet') can hold: nothing, the empty
\* frame of a failed download, or a balance sheet
IndicatorSheets == {None, NoFrame, SampleFrame, SparseFrame}

IndicatorPrices ==
    {[index |-> <<1, 2>>, cols |-> [c \in {"close"} |-> <<Rat(30, 1), Rat(50, 1)>>]]}

AnalysisPrices == {Rat(30, 1), Rat(50, 1)}

\* FundamentalIndicators(fundamental_data, price_data)
InitIndicators ==
    /\ constructed = FALSE
    /\ balance_sheet = NoFrame
    /\ shares_outstanding = Zero
    /\ latest_bs = <<>>
    /\ last = NoCall
    /\ mnav_data = None
    /\ premium_data = None
    /\ failed = FALSE
    /\ threads = <<>>
    /\ fundamental_data \in IndicatorSheets
    /\ price_data \in IndicatorPrices
    /\ use_sample_data = FALSE
    /\ fetch = <<>>
    /\ trace = <<>>

\* a setup whose failure removes the calculator installed before
SetupMnavCalculator_clearing ==
    /\ Idle
    /\ \E shares \in Shares :
          LET out == setup_checks(fundamental_data, shares)
          IN  /\ last' = Call("setup_mnav_calculator", [shares_outstanding |-> shares], out)
              /\ IF out.ok
                 THEN /\ constructed' = TRUE
                      /\ balance_sheet' = fundamental_data
                      /\ shares_outstanding' = shares
                      /\ latest_bs' = get_latest_balance_sheet(fundamental_data)
                 ELSE /\ constructed' = FALSE
                      /\ UNCHANGED <<balance_sheet, shares_outstanding, latest_bs>>
    /\ UNCHANGED callers
    /\ UNCHANGED collaborators

\* fund_ind.setup_mnav_calculator(shares_outstanding)
SetupMnavCalculator ==
    /\ Idle
    /\ \E shares \in Shares :
          LET out == setup_checks(fundamental_data, shares)
          IN  /\ last' = Call("setup_mnav_calculator", [shares_outstanding |-> shares], out)
              /\ IF out.ok
                 THEN /\ constructed' = TRUE
                      /\ balance_sheet' = fundamental_data
                      /\ shares_outstanding' = shares
                      /\ latest_bs' = get_latest_balance_sheet(fundamental_data)
                 ELSE UNCHANGED <<constructed, balance_sheet, shares_outstanding, latest_bs>>
    /\ UNCHANGED callers
    /\ UNCHANGED collaborators

\* fund_ind.get_mnav_analysis(current_price, property_fair_value,
\* property_book_value, deferred_tax_rate)
GetMnavAnalysis ==
    /\ Idle
    /\ \E price \in AnalysisPrices, fv \in OptVals(MaxFV), bv \in OptVals(MaxFV), rate \in Rates :
          last' = Call("get_mnav_analysis",
                       [current_price |-> price, property_fair_value |-> fv,
                        property_book_value |-> bv, deferred_tax_rate |-> rate],
                       get_mnav_analysis(constructed, latest_bs, shares_outstanding,
                                         price_data, price, fv, bv, rate))
    /\ UNCHANGED <<constructed, balance_sheet, shares_outstanding, latest_bs>>
    /\ UNCHANGED callers
    /\ UNCHANGED collaborators

NextIndicators ==
    \/ SetupMnavCalculator
    \/ GetMnavAnalysis
    \/ Consume

SpecIndicators == InitIndicators /\ [][NextIndicators]_vars

(***************************************************************************)
(* StockDataFetcher.get_historical_data.  A request to a provider is an    *)
(* event outside the program: each iteration of the retry loop is one step *)
(* whose outcome is chosen by the provider.  trace records the sleeps and  *)
(* the requests of the call in order.  An exception is modelled by what    *)
(* the code looks at: whether its message mentions a rate limit ("rate     *)
(* limit", "too many requests") and whether it mentions a key ("api key",  *)
(* "credentials"), with the provider and the attempt that raised it.  The  *)
(* dates are in the documented format 'YYYY-MM-DD'; provider = "" stands   *)
(* for an argument that is None or empty.                                  *)
(***************************************************************************)
\* the default providers_to_try with Yahoo Finance first
default_providers_yfinance_first == <<"yfinance", "polygon", "fmp">>

\* providers_to_try, in order of preference
default_providers == <<"polygon", "fmp", "yfinance">>

\* if provider: providers_to_try = [provider]
providers_for(provider) == IF provider # "" THEN <<provider>> ELSE default_providers

\* the demo switch ignored
demo_mode_never(flag) == FALSE

\* if self.use_sample_data
demo_mode(flag) == flag

\* generate_sample_stock_data(self.symbol, start_date, end_date)
SampleData == [source |-> "sample", attempt |-> 0]

\* an exception raised by attempt number attempt (from 0) on a provider
Error(type, rate_limit, api_key, provider, attempt) ==
    [type |-> type, rate_limit |-> rate_limit, api_key |-> api_key,
     provider |-> provider, attempt |-> attempt]

\* raise ValueError(f"No data found for {self.symbol}")
NoDataFound(provider, attempt) == Error("ValueError", FALSE, FALSE, provider, attempt)

\* `raise None`
RaisedNone == Error("TypeError", FALSE, FALSE, "", 0)

\* what a request can come to: data, an empty frame, or an exception
RequestOutcomes ==
    {[kind |-> "data", rate_limit |-> FALSE, api_key |-> FALSE],
     [kind |-> "empty", rate_limit |-> FALSE, api_key |-> FALSE]}
    \cup {[kind |-> "exception", rate_limit |-> rl, api_key |-> ak] :
             rl \in BOOLEAN, ak \in BOOLEAN}

\* one more attempt allowed after the last one of the range
retry_again_once_more(attempt, max_retries) == attempt < max_retries

\* if attempt < max_retries - 1: continue
retry_again(attempt, max_retries) == attempt < max_retries - 1

\* every error that mentions a key leaves the provider
leaves_provider_any_key(e, attempt, max_retries) ==
    IF e.api_key THEN TRUE ELSE ~retry_again(attempt, max_retries)

\* the except clause: TRUE for break, FALSE for continue
leaves_provider(e, attempt, max_retries) ==
    IF e.rate_limit THEN ~retry_again(attempt, max_retries)
    ELSE IF e.api_key THEN TRUE
    ELSE ~retry_again(attempt, max_retries)

\* the end of the method, after the loop over the providers
all_failed(fallback_to_sample, last_error) ==
    IF fallback_to_sample THEN Return(SampleData)
    ELSE IF last_error = None THEN Raise(RaisedNone)
    ELSE Raise(last_error)

NoFetch == [pc |-> "idle"]

ProviderArgs == {"", "fmp"}

RetryDelays == {0, 3}

\* the locals of a call that has left the loop over the providers
concluded(f) ==
    IF f.pc = "loop" /\ f.p > Len(f.providers_to_try)
    THEN [f EXCEPT !.pc = "done",
                   !.result = all_failed(f.fallback_to_sample, f.last_error)]
    ELSE f

\* a fetcher and no call in progress
InitFetcher ==
    /\ constructed = FALSE
    /\ balance_sheet = NoFrame
    /\ shares_outstanding = Zero
    /\ latest_bs = <<>>
    /\ last = NoCall
    /\ mnav_data = None
    /\ premium_data = None
    /\ failed = FALSE
    /\ threads = <<>>
    /\ fundamental_data = <<>>
    /\ price_data = <<>>
    /\ use_sample_data \in BOOLEAN
    /\ fetch = NoFetch
    /\ trace = <<>>

\* fetcher.get_historical_data(start_date, end_date, provider, max_retries,
\* retry_delay, fallback_to_sample), up to the first request
GetHistoricalData ==
    /\ fetch.pc = "idle"
    /\ \E provider \in ProviderArgs, max_retries \in 0 .. MaxRetries,
          retry_delay \in RetryDelays, fallback_to_sample \in BOOLEAN :
          LET entered ==
                  [pc |-> "loop",
                   provider |-> provider,
                   providers_to_try |-> providers_for(provider),
                   p |-> IF max_retries > 0 THEN 1 ELSE Len(providers_for(provider)) + 1,
                   attempt |-> 0,
                   max_retries |-> max_retries,
                   retry_delay |-> retry_delay,
                   fallback_to_sample |-> fallback_to_sample,
                   last_error |-> None,
                   result |-> None]
          IN  fetch' = IF demo_mode(use_sample_data)
                       THEN [entered EXCEPT !.pc = "done", !.result = Return(SampleData)]
                       ELSE concluded(entered)
    /\ trace' = <<>>
    /\ UNCHANGED <<constructed, balance_sheet, shares_outstanding, latest_bs>>
    /\ UNCHANGED <<last, mnav_data, premium_data, failed, threads>>
    /\ UNCHANGED <<fundamental_data, price_data, use_sample_data>>

\* one iteration of `for attempt in range(max_retries)`: the sleep before a
\* retry, the request, and the except clause
RequestProvider ==
    /\ fetch.pc = "loop"
    /\ \E outcome \in RequestOutcomes :
          LET provider_name == fetch.providers_to_try[fetch.p]
              slept == IF fetch.attempt > 0
                       THEN <<[ev |-> "sleep", delay |-> fetch.retry_delay]>>
                       ELSE <<>>
              e == IF outcome.kind = "empty"
                   THEN NoDataFound(provider_name, fetch.attempt)
                   ELSE Error("Exception", outcome.rate_limit, outcome.api_key,
                              provider_name, fetch.attempt)
              request == [ev |-> "request", provider |-> provider_name,
                          attempt |-> fetch.attempt]
          IN  /\ trace' = trace \o slept \o <<request>>
              /\ fetch' =
                    IF outcome.kind = "data"
                    THEN [fetch EXCEPT
                             !.pc = "done",
                             !.result = Return([source |-> provider_name,
                                                attempt |-> fetch.attempt])]
                    ELSE IF leaves_provider(e, fetch.attempt, fetch.max_retries)
                    THEN concluded([fetch EXCEPT !.last_error = e, !.p = @ + 1,
                                                 !.attempt = 0])
                    ELSE [fetch EXCEPT !.last_error = e, !.attempt = @ + 1]
    /\ UNCHANGED <<constructed, balance_sheet, shares_outstanding, latest_bs>>
    /\ UNCHANGED <<last, mnav_data, premium_data, failed, threads>>
    /\ UNCHANGED <<fundamental_data, price_data, use_sample_data>>

\* the caller has the frame or the exception; the fetcher is free again
TakeResult ==
    /\ fetch.pc = "done"
    /\ fetch' = NoFetch
    /\ trace' = <<>>
    /\ UNCHANGED <<constructed, balance_sheet, shares_outstanding, latest_bs>>
    /\ UNCHANGED <<last, mnav_data, premium_data, failed, threads>>
    /\ UNCHANGED <<fundamental_data, price_data, use_sample_data>>

NextFetcher ==
    \/ GetHistoricalData
    \/ RequestProvider
    \/ TakeResult

SpecFetcher == InitFetcher /\ [][NextFetcher]_vars

\* a request returns or raises; the loop goes on to its next iteration
SpecFetcherFair == SpecFetcher /\ WF_vars(RequestProvider)

(***************************************************************************)
(* A session on the self-test's instance: the caller holds the records it  *)
(* was returned and passes them on, as the self-test does.                 *)
(***************************************************************************)
SelfTestFrame ==
    [cols |-> {"total_assets", "total_liabilities", "minority_interest"},
     rows |-> <<[c \in {"total_assets", "total_liabilities", "minority_interest"} |->
                   CASE c = "total_assets" -> Rat(1000000000, 1)
                     [] c = "total_liabilities" -> Rat(600000000, 1)
                     [] c = "minority_interest" -> Rat(50000000, 1)]>>]

SelfTestShares == Rat(10000000, 1)

SelfTestFairValues == {None, Zero, Rat(500000000, 1)}

SelfTestBookValues == {None, Zero, Rat(400000000, 1)}

SelfTestRates == {Zero, Rat(1, RateDen)}

SelfTestMinority == {None, Zero}

\* current_price = 38.50, and a price above every valuation of the session
SelfTestPrices == {Rat(77, 2), Rat(50, 1)}

SelfTestRefs == {Rat(-5, 1), Zero, Rat(44, 1)}

SelfTestScenarios ==
    {<<<<"Conservative", Rat(30, 1)>>, <<"Base Case", Rat(35, 1)>>, <<"Optimistic", Rat(40, 1)>>>>,
     <<<<"Conservative", Rat(30, 1)>>, <<"Base Case", Zero>>>>}

SelfTestPriceFrames ==
    {[index |-> <<1, 2>>, cols |-> [c \in {"close"} |-> <<Rat(77, 2), Rat(50, 1)>>]]}

\* the reference values the caller can pass: literals, or the per-share value
\* of the valuation record it holds
HeldRefs ==
    SelfTestRefs \cup (IF "mnav_per_share" \in DOMAIN mnav_data
                       THEN {mnav_data["mnav_per_share"]} ELSE {})

InitSession ==
    /\ constructed = TRUE
    /\ balance_sheet = SelfTestFrame
    /\ shares_outstanding = SelfTestShares
    /\ latest_bs = get_latest_balance_sheet(SelfTestFrame)
    /\ last = NoCall
    /\ mnav_data = None
    /\ premium_data = None
    /\ failed = FALSE
    /\ threads = <<>>
    /\ NoCollaborators

\* CalculateMnavSelfTest writing a supplied minority interest into self.latest_bs
CalculateMnavSelfTest_storing ==
    /\ Idle
    /\ \E fv \in SelfTestFairValues, bv \in SelfTestBookValues, rate \in SelfTestRates, mi \in SelfTestMinority :
          /\ last' = Call("calculate_mnav_with_fair_value",
                          [property_fair_value |-> fv, property_book_value |-> bv,
                           deferred_tax_rate |-> rate, minority_interest |-> mi],
                          calculate_mnav_with_fair_value(latest_bs, shares_outstanding,
                                                         fv, bv, rate, mi))
          /\ latest_bs' = IF mi = None THEN latest_bs
                          ELSE [latest_bs EXCEPT !["minority_interest"] = mi]
    /\ UNCHANGED <<constructed, balance_sheet, shares_outstanding>>
    /\ UNCHANGED callers
    /\ UNCHANGED collaborators

CalculateMnavSelfTest ==
    /\ Idle
    /\ \E fv \in SelfTestFairValues, bv \in SelfTestBookValues, rate \in SelfTestRates, mi \in SelfTestMinority :
          last' = Call("calculate_mnav_with_fair_value",
                       [property_fair_value |-> fv, property_book_value |-> bv,
                        deferred_tax_rate |-> rate, minority_interest |-> mi],
                       calculate_mnav_with_fair_value(latest_bs, shares_outstanding,
                                                      fv, bv, rate, mi))
    /\ UNCHANGED <<constructed, balance_sheet, shares_outstanding, latest_bs>>
    /\ UNCHANGED callers
    /\ UNCHANGED collaborators

\* PremiumDiscountSelfTest with the instance dropping its snapshot when it raises
PremiumDiscountSelfTest_resetting ==
    /\ Idle
    /\ \E price \in SelfTestPrices, ref \in HeldRefs :
          LET out == calculate_premium_discount(price, ref)
          IN  /\ last' = Call("calculate_premium_discount",
                              [current_price |-> price, mnav_per_share |-> ref], out)
              /\ failed' = (failed \/ ~out.ok)
              /\ latest_bs' = IF out.ok THEN latest_bs
                              ELSE [c \in {} |-> Zero]
    /\ UNCHANGED <<constructed, balance_sheet, shares_outstanding>>
    /\ UNCHANGED <<mnav_data, premium_data, threads>>
    /\ UNCHANGED collaborators

PremiumDiscountSelfTest ==
    /\ Idle
    /\ \E price \in SelfTestPrices, ref \in HeldRefs :
          LET out == calculate_premium_discount(price, ref)
          IN  /\ last' = Call("calculate_premium_discount",
                              [current_price |-> price, mnav_per_share |-> ref], out)
              /\ failed' = (failed \/ ~out.ok)
    /\ UNCHANGED <<constructed, balance_sheet, shares_outstanding, latest_bs>>
    /\ UNCHANGED <<mnav_data, premium_data, threads>>
    /\ UNCHANGED collaborators

HistoricalMnavSelfTest ==
    /\ Idle
    /\ \E df \in SelfTestPriceFrames, ref \in HeldRefs :
          last' = Call("calculate_historical_mnav",
                       [historical_prices |-> df, mnav_per_share |-> ref,
                        price_column |-> "close"],
                       calculate_historical_mnav(df, ref, "close"))
    /\ UNCHANGED <<constructed, balance_sheet, shares_outstanding, latest_bs>>
    /\ UNCHANGED callers
    /\ UNCHANGED collaborators

CompareSelfTest ==
    /\ Idle
    /\ \E price \in SelfTestPrices, scenarios \in SelfTestScenarios :
          LET out == compare_multiple_valuations(price, scenarios)
          IN  /\ last' = Call("compare_multiple_valuations",
                              [current_price |-> price, scenarios |-> scenarios], out)
              /\ failed' = (failed \/ ~out.ok)
    /\ UNCHANGED <<constructed, balance_sheet, shares_outstanding, latest_bs>>
    /\ UNCHANGED <<mnav_data, premium_data, threads>>
    /\ UNCHANGED collaborators

\* calc.get_mnav_summary(mnav_data, premium_data) on the records the caller holds
GetMnavSummary ==
    /\ Idle
    /\ mnav_data # None
    /\ premium_data # None
    /\ last' = Call("get_mnav_summary",
                    [mnav_data |-> mnav_data, premium_data |-> premium_data],
                    get_mnav_summary(mnav_data, premium_data))
    /\ UNCHANGED <<constructed, balance_sheet, shares_outstanding, latest_bs>>
    /\ UNCHANGED callers
    /\ UNCHANGED collaborators

\* mnav_data = <the valuation just returned>
KeepValuation ==
    /\ last.op \in {"calculate_basic_nav", "calculate_mnav_with_fair_value"}
    /\ last.ok
    /\ mnav_data' = last.result
    /\ last' = NoCall
    /\ UNCHANGED <<constructed, balance_sheet, shares_outstanding, latest_bs>>
    /\ UNCHANGED <<premium_data, failed, threads>>
    /\ UNCHANGED collaborators

\* premium_data = <the premium/discount record just returned>
KeepPremium ==
    /\ last.op = "calculate_premium_discount"
    /\ last.ok
    /\ premium_data' = last.result
    /\ last' = NoCall
    /\ UNCHANGED <<constructed, balance_sheet, shares_outstanding, latest_bs>>
    /\ UNCHANGED <<mnav_data, failed, threads>>
    /\ UNCHANGED collaborators

NextSession ==
    \/ CalculateBasicNav
    \/ CalculateMnavSelfTest
    \/ PremiumDiscountSelfTest
    \/ HistoricalMnavSelfTest
    \/ CompareSelfTest
    \/ GetMnavSummary
    \/ KeepValuation
    \/ KeepPremium
    \/ Consume

SpecSession == InitSession /\ [][NextSession]_vars

(***************************************************************************)
(* Properties                                                              *)
(***************************************************************************)
IsPD == last.op = "calculate_premium_discount"

IsHist == last.op = "calculate_historical_mnav"

IsBasic == last.op = "calculate_basic_nav"

IsMnav == last.op = "calculate_mnav_with_fair_value"

\* the numerator of a finite value decides its sign
Positive(a) == a[2] > 0 /\ a[1] > 0

NonPositive(a) == a[2] > 0 /\ a[1] <= 0

\* C1: calculate_premium_discount fails, returning no record, for every
\* reference value <= 0 and every price, and does not fail for any reference
\* value > 0.
C1_PremiumDiscountFailsIffNonPositive ==
    IsPD =>
        /\ NonPositive(last.args.mnav_per_share) => ~last.ok /\ last.result = None
        /\ Positive(last.args.mnav_per_share) => last.ok /\ last.result # None

C1_Witness ==
    /\ IsPD
    /\ last.args.mnav_per_share = Rat(-5, 1)
    /\ last.args.current_price = Rat(MaxPrice, 1)
    /\ ~last.ok

\* C2: for reference > 0 and price > 0 the record has ratio = price/reference,
\* pct = (price - reference)/reference * 100, and is Premium iff pct > 5,
\* Discount iff pct < -5, FairValue otherwise (pct = 5 and pct = -5 included).
\* Stated in integers: price = pn/k, reference = rn/k with k > 0, rn > 0.
C2_RatioPctClassification ==
    (IsPD /\ Positive(last.args.mnav_per_share) /\ Positive(last.args.current_price)) =>
        LET price == last.args.current_price
            ref == last.args.mnav_per_share
            pn == price[1] * ref[2]
            rn == ref[1] * price[2]
            r == last.result
            premium == (pn - rn) * 100 > 5 * rn
            discount == (pn - rn) * 100 < (-5) * rn
        IN  /\ last.ok
            /\ r.p_mnav_ratio[2] > 0
            /\ r.p_mnav_ratio[1] * rn = pn * r.p_mnav_ratio[2]
            /\ r.premium_discount_pct[2] > 0
            /\ r.premium_discount_pct[1] * rn = (pn - rn) * 100 * r.premium_discount_pct[2]
            /\ premium <=> (r.status = "overvalued" /\ r.interpretation = "Trading at Premium")
            /\ discount <=> (r.status = "undervalued" /\ r.interpretation = "Trading at Discount")
            /\ (~premium /\ ~discount) <=>
                   (r.status = "fairly_valued" /\ r.interpretation = "Trading near Fair Value")

C2_Witness ==
    /\ IsPD
    /\ last.ok
    /\ Positive(last.args.current_price)
    /\ last.result.premium_discount_pct = Rat(5, 1)
    /\ last.result.status = "fairly_valued"

\* C3: construction fails iff the balance sheet is empty or the share count is
\* <= 0; an instance that exists has a share count > 0 and a non-empty balance
\* sheet, and no valuation on it fails on a division by zero.
C3_ConstructionGuards ==
    /\ last.op = "__init__" =>
          (last.ok <=>
              /\ Len(last.args.balance_sheet.rows) > 0
              /\ last.args.balance_sheet.cols # {}
              /\ Positive(last.args.shares_outstanding))
    /\ (last.op = "__init__" /\ last.ok) => constructed
    /\ constructed =>
          /\ Positive(shares_outstanding)
          /\ Len(balance_sheet.rows) > 0
          /\ latest_bs = balance_sheet.rows[1]
    /\ (IsBasic \/ IsMnav) => last.ok

C3_Witness ==
    /\ last.op = "__init__"
    /\ ~last.ok
    /\ ~constructed
    /\ Len(last.args.balance_sheet.rows) > 0
    /\ last.args.balance_sheet.cols = ColumnNames
    /\ last.args.shares_outstanding = Zero

\* the resolved value of a field of the latest snapshot, 0 when absent or NaN
Resolved(field) ==
    IF field \in DOMAIN latest_bs /\ latest_bs[field] # NaN THEN latest_bs[field] ELSE Zero

\* the latest snapshot without its equity column
WithoutEquity == [c \in (DOMAIN latest_bs) \ {"total_equity"} |-> latest_bs[c]]

\* C4: calculate_basic_nav returns nav = total_assets - total_liabilities and
\* per-share = nav / shares_outstanding on the resolved fields of the latest
\* snapshot, and the same values whatever the snapshot's equity field holds.
C4_BasicNav ==
    IsBasic =>
        LET r == last.result
            ta == Resolved("total_assets")
            tl == Resolved("total_liabilities")
            n == ta[1] * tl[2] - tl[1] * ta[2]
            d == ta[2] * tl[2]
            bare == calculate_basic_nav(WithoutEquity, shares_outstanding).result
        IN  /\ last.ok
            /\ r.total_assets = ta
            /\ r.total_liabilities = tl
            /\ r.nav[2] > 0
            /\ r.nav[1] * d = n * r.nav[2]
            /\ r.nav_per_share[2] > 0
            /\ r.nav_per_share[1] * d * shares_outstanding[1]
                   = n * shares_outstanding[2] * r.nav_per_share[2]
            /\ bare.nav = r.nav
            /\ bare.nav_per_share = r.nav_per_share

C4_Witness ==
    /\ IsBasic
    /\ last.ok
    /\ "total_equity" \in DOMAIN latest_bs
    /\ Truthy(latest_bs["total_equity"])
    /\ latest_bs["total_equity"] # NaN
    /\ last.result.book_value_equity # last.result.nav
    /\ last.result.nav_per_share = Rat(-1, 2)

\* C5: in the record of calculate_mnav_with_fair_value,
\* deferred_tax_adjustment = revaluation_gain * deferred_tax_rate,
\* mnav = adjusted_assets - total_liabilities - minority_interest
\* - deferred_tax_adjustment, and mnav_per_share = mnav / shares_outstanding.
C5_MnavRecordConsistent ==
    IsMnav =>
        LET r == last.result
        IN  /\ last.ok
            /\ r.deferred_tax_adjustment = FMul(r.revaluation_gain, r.deferred_tax_rate)
            /\ r.mnav = FSub(FSub(FSub(r.adjusted_assets, r.total_liabilities),
                                  r.minority_interest), r.deferred_tax_adjustment)
            /\ r.shares_outstanding = shares_outstanding
            /\ r.mnav_per_share[2] > 0
            /\ r.mnav_per_share[1] * r.mnav[2] * r.shares_outstanding[1]
                   = r.mnav[1] * r.shares_outstanding[2] * r.mnav_per_share[2]

C5_Witness ==
    /\ IsMnav
    /\ last.ok
    /\ last.result.revaluation_gain = Rat(1, 1)
    /\ last.result.deferred_tax_rate = Rat(1, RateDen)
    /\ last.result.deferred_tax_adjustment = Rat(1, RateDen)
    /\ last.result.minority_interest = Rat(1, 1)

\* C6: whenever both fair value and book value are supplied (0 included),
\* revaluation_gain = fair_value - book_value and adjusted_assets =
\* total_assets + revaluation_gain; otherwise revaluation_gain = 0 and
\* adjusted_assets = total_assets.
C6_RevaluationWheneverSupplied ==
    IsMnav =>
        LET r == last.result
            fv == last.args.property_fair_value
            bv == last.args.property_book_value
        IN  IF fv # None /\ bv # None
            THEN /\ r.revaluation_gain = FSub(fv, bv)
                 /\ r.adjusted_assets = FAdd(r.total_assets, FSub(fv, bv))
            ELSE /\ r.revaluation_gain = Zero
                 /\ r.adjusted_assets = r.total_assets

\* C7: calculate_mnav_with_fair_value(fv, fv, rate) has revaluation_gain = 0
\* and deferred_tax_adjustment = 0, and the mnav and mnav_per_share of the
\* call without a fair-value adjustment.
C7_EqualFairAndBookIsNoOp ==
    (IsMnav /\ last.args.property_fair_value # None
            /\ last.args.property_fair_value = last.args.property_book_value) =>
        LET r == last.result
            plain == calculate_mnav_with_fair_value(latest_bs, shares_outstanding,
                         None, None, Zero, last.args.minority_interest).result
        IN  /\ last.ok
            /\ r.revaluation_gain = Zero
            /\ r.deferred_tax_adjustment = Zero
            /\ r.mnav = plain.mnav
            /\ r.mnav_per_share = plain.mnav_per_share

C7_Witness ==
    /\ IsMnav
    /\ last.ok
    /\ last.args.property_fair_value = Rat(MaxFV, 1)
    /\ last.args.property_book_value = Rat(MaxFV, 1)
    /\ last.args.deferred_tax_rate = Rat(1, RateDen)
    /\ last.result.revaluation_gain = Zero

\* C8: for reference > 0, calculate_historical_mnav returns one row per input
\* row under the input index, each row with its original price, the constant
\* reference value, and ratio = price / reference.
C8_OneRowPerPrice ==
    (IsHist /\ Positive(last.args.mnav_per_share)) =>
        LET in == last.args.historical_prices
            ref == last.args.mnav_per_share
            out == last.result
        IN  /\ last.ok
            /\ out.index = in.index
            /\ \A c \in DOMAIN out.cols : Len(out.cols[c]) = Len(in.index)
            /\ out.cols["close"] = in.cols["close"]
            /\ \A i \in 1 .. Len(in.index) :
                  LET price == in.cols["close"][i]
                      ratio == out.cols["p_mnav_ratio"][i]
                  IN  /\ out.cols["mnav_per_share"][i] = ref
                      /\ ratio[2] > 0
                      /\ ratio[1] * ref[1] * price[2] = price[1] * ref[2] * ratio[2]

C8_Witness ==
    /\ IsHist
    /\ last.ok
    /\ Positive(last.args.mnav_per_share)
    /\ last.args.historical_prices.index = <<2, 1>>
    /\ last.args.historical_prices.cols["close"] = <<Rat(MaxPrice, 1), Zero>>
    /\ last.result.cols["p_mnav_ratio"] = <<Rat(MaxPrice, MaxRef), Zero>>

StatusOfRow(s) ==
    CASE s = "premium" -> "overvalued"
      [] s = "discount" -> "undervalued"
      [] s = "fair" -> "fairly_valued"

\* C9: for reference > 0, each row of calculate_historical_mnav carries the
\* ratio, pct, amount and classification that calculate_premium_discount
\* returns for that row's price and the reference value.
C9_RowsAgreeWithPremiumDiscount ==
    (IsHist /\ Positive(last.args.mnav_per_share)) =>
        LET in == last.args.historical_prices
            ref == last.args.mnav_per_share
            out == last.result
        IN  /\ last.ok
            /\ \A i \in 1 .. Len(in.index) :
                  LET pd == calculate_premium_discount(in.cols["close"][i], ref)
                  IN  /\ pd.ok
                      /\ out.cols["p_mnav_ratio"][i] = pd.result.p_mnav_ratio
                      /\ out.cols["premium_discount_pct"][i] = pd.result.premium_discount_pct
                      /\ out.cols["premium_discount_amount"][i]
                             = pd.result.premium_discount_amount
                      /\ StatusOfRow(out.cols["valuation_status"][i]) = pd.result.status

C9_Witness ==
    /\ IsHist
    /\ last.ok
    /\ Len(last.args.historical_prices.index) = 2
    /\ last.result.cols["premium_discount_pct"] = <<Rat(5, 1), Rat(-5, 1)>>
    /\ last.result.cols["valuation_status"] = <<"fair", "fair">>

\* C10: calculate_historical_mnav called with a reference value <= 0 on a
\* non-empty price series fails and returns no series.
C10_HistoricalRejectsNonPositive ==
    (IsHist /\ Len(last.args.historical_prices.index) > 0
            /\ NonPositive(last.args.mnav_per_share)) =>
        ~last.ok /\ last.result = None

IsCompare == last.op = "compare_multiple_valuations"

AllPositive(scenarios) == \A i \in 1 .. Len(scenarios) : Positive(scenarios[i][2])

\* C11: for a scenario map whose values are all > 0, compare_multiple_valuations
\* returns one row per scenario in the map's order, each row carrying what
\* calculate_premium_discount returns for the price and that scenario's value;
\* replacing the value of one scenario leaves every other row as it is.
C11_OneIndependentRowPerScenario ==
    (IsCompare /\ AllPositive(last.args.scenarios)) =>
        LET price == last.args.current_price
            sc == last.args.scenarios
            rows == last.result
        IN  /\ last.ok
            /\ Len(rows) = Len(sc)
            /\ \A i \in 1 .. Len(sc) :
                  LET pd == calculate_premium_discount(price, sc[i][2]).result
                  IN  /\ rows[i].Scenario = sc[i][1]
                      /\ rows[i].mNAV_per_Share = sc[i][2]
                      /\ rows[i].Current_Price = price
                      /\ rows[i].P_mNAV_Ratio = pd.p_mnav_ratio
                      /\ rows[i].Premium_Discount_pct = pd.premium_discount_pct
                      /\ rows[i].Status = pd.status
            /\ \A j \in 1 .. Len(sc) : \A v \in {x \in ScenarioVals : Positive(x)} :
                  LET other == compare_multiple_valuations(price,
                                   [sc EXCEPT ![j] = <<sc[j][1], v>>])
                  IN  /\ other.ok
                      /\ Len(other.result) = Len(rows)
                      /\ \A i \in (1 .. Len(sc)) \ {j} : other.result[i] = rows[i]

C11_Witness ==
    /\ IsCompare
    /\ last.ok
    /\ last.args.current_price = Rat(MaxPrice, 1)
    /\ last.args.scenarios = <<<<"Optimistic", Rat(MaxRef, 1)>>, <<"Base Case", Rat(MaxRef - 1, 1)>>>>
    /\ last.result[1].Scenario = "Optimistic"
    /\ last.result[2].Status = "overvalued"

IsSummary == last.op = "get_mnav_summary"

\* C12: on the self-test's instance, fair value 500,000,000, book value
\* 400,000,000 and rate 0.10 give revaluation_gain 100,000,000, deferred tax
\* 10,000,000, mnav 440,000,000 and 44 per share; price 38.50 against 44 gives
\* pct -12.5 and a Discount.
C12_SelfTestFigures ==
    /\ (/\ IsMnav
        /\ last.args.property_fair_value = Rat(500000000, 1)
        /\ last.args.property_book_value = Rat(400000000, 1)
        /\ last.args.deferred_tax_rate = Rat(1, 10)
        /\ last.args.minority_interest = None) =>
          /\ last.ok
          /\ last.result.revaluation_gain = Rat(100000000, 1)
          /\ last.result.deferred_tax_adjustment = Rat(10000000, 1)
          /\ last.result.mnav = Rat(440000000, 1)
          /\ last.result.mnav_per_share = Rat(44, 1)
    /\ (/\ IsPD
        /\ last.args.current_price = Rat(77, 2)
        /\ last.args.mnav_per_share = Rat(44, 1)) =>
          /\ last.ok
          /\ last.result.premium_discount_pct = Rat(-25, 2)
          /\ last.result.status = "undervalued"
          /\ last.result.interpretation = "Trading at Discount"

C12_Witness ==
    /\ IsPD
    /\ last.ok
    /\ mnav_data # None
    /\ "revaluation_gain" \in DOMAIN mnav_data
    /\ mnav_data["revaluation_gain"] = Rat(100000000, 1)
    /\ mnav_data["deferred_tax_adjustment"] = Rat(10000000, 1)
    /\ mnav_data["minority_interest"] = Rat(50000000, 1)
    /\ last.args.mnav_per_share = mnav_data["mnav_per_share"]
    /\ last.args.current_price = Rat(77, 2)
    /\ last.result.status = "undervalued"

\* the outcome of the call in `last` on a new instance built from the
\* self-test's balance sheet and share count
OnFreshInstance ==
    LET fresh_bs == get_latest_balance_sheet(SelfTestFrame)
        a == last.args
    IN  CASE IsBasic -> calculate_basic_nav(fresh_bs, SelfTestShares)
          [] IsMnav -> calculate_mnav_with_fair_value(fresh_bs, SelfTestShares,
                           a.property_fair_value, a.property_book_value,
                           a.deferred_tax_rate, a.minority_interest)
          [] IsPD -> calculate_premium_discount(a.current_price, a.mnav_per_share)
          [] IsHist -> calculate_historical_mnav(a.historical_prices, a.mnav_per_share,
                                                 a.price_column)
          [] IsCompare -> compare_multiple_valuations(a.current_price, a.scenarios)
          [] IsSummary -> get_mnav_summary(a.mnav_data, a.premium_data)

SameAsFresh ==
    LET f == OnFreshInstance
    IN  last.ok = f.ok /\ last.err = f.err /\ last.result = f.result

InstanceUntouched ==
    /\ constructed
    /\ balance_sheet = SelfTestFrame
    /\ shares_outstanding = SelfTestShares
    /\ latest_bs = SelfTestFrame.rows[1]

\* C16: after any sequence of calls, failing or succeeding, the instance's
\* balance sheet, latest row and share count are those it was built with, and
\* every call has the outcome it has on a new instance.
C16_StatelessAcrossCalls ==
    /\ InstanceUntouched
    /\ ~Idle => SameAsFresh

C16_Witness ==
    /\ IsBasic
    /\ last.ok
    /\ failed
    /\ mnav_data # None
    /\ "revaluation_gain" \in DOMAIN mnav_data
    /\ mnav_data["minority_interest"] = Zero
    /\ premium_data # None

\* C17: once a premium/discount calculation has raised on a non-positive
\* reference value, every later valuation on the instance returns what it
\* returns on an instance where no call ever failed.
C17_FailureLeavesValuationsUsable ==
    (failed /\ (IsBasic \/ IsMnav)) =>
        /\ last.ok
        /\ last.result = OnFreshInstance.result
        /\ latest_bs = SelfTestFrame.rows[1]

C17_Witness ==
    /\ failed
    /\ IsMnav
    /\ last.ok
    /\ last.result.mnav_per_share = Rat(44, 1)

\* C20: get_mnav_summary returns a text for every valuation record the
\* instance returned, from calculate_basic_nav as from
\* calculate_mnav_with_fair_value, with any premium/discount record.
C20_SummaryOfEveryValuation ==
    IsSummary => last.ok

IsResolve == last.op = "_get_value_safe"

\* a field the latest snapshot does not name, or names with a null value
Missing(field) == field \notin DOMAIN latest_bs \/ latest_bs[field] = NaN

\* the latest snapshot with 0 written into every missing field
Filled == [c \in ColumnNames |-> Resolved(c)]

NoAdjustment ==
    /\ ~(Truthy(last.args.property_fair_value) /\ Truthy(last.args.property_book_value))
    /\ last.args.minority_interest = None

\* C14: missing balance-sheet fields never make a valuation fail. The resolver
\* returns the default (0 in the valuations) for an absent or null field; both
\* valuations return the result they return on the snapshot with 0 in the
\* missing fields, never an error; with all four fields missing the total and
\* the per-share value are 0.
C14_MissingFieldsDegradeToZero ==
    /\ (IsResolve /\ last.args.key \in ColumnNames /\ Missing(last.args.key))
           => last.ok /\ last.result = last.args.default
    /\ IsBasic
           => /\ last.ok
              /\ last.result = calculate_basic_nav(Filled, shares_outstanding).result
              /\ \A f \in {"total_assets", "total_liabilities"} :
                    Missing(f) => last.result[f] = Zero
              /\ (\A f \in ColumnNames : Missing(f))
                    => last.result.nav = Zero /\ last.result.nav_per_share = Zero
    /\ IsMnav
           => /\ last.ok
              /\ last.result =
                    calculate_mnav_with_fair_value(
                        Filled, shares_outstanding, last.args.property_fair_value,
                        last.args.property_book_value, last.args.deferred_tax_rate,
                        last.args.minority_interest).result
              /\ \A f \in {"total_assets", "total_liabilities"} :
                    Missing(f) => last.result[f] = Zero
              /\ (Missing("minority_interest") /\ last.args.minority_interest = None)
                    => last.result.minority_interest = Zero
              /\ ((\A f \in ColumnNames : Missing(f)) /\ NoAdjustment)
                    => last.result.mnav = Zero /\ last.result.mnav_per_share = Zero

\* a valuation of a snapshot whose only field is null
C14_Witness ==
    /\ IsMnav
    /\ last.ok
    /\ NoAdjustment
    /\ DOMAIN latest_bs = {"total_assets"}
    /\ latest_bs["total_assets"] = NaN
    /\ last.result.mnav = Zero
    /\ last.result.mnav_per_share = Zero

\* the positions of the spellings of the requested key that the snapshot names
PresentSpellings ==
    {i \in 1 .. 5 : key_variations(last.args.key)[i] \in DOMAIN latest_bs}

\* the positions of the spellings under which the snapshot holds a value
ValuedSpellings ==
    {i \in PresentSpellings : latest_bs[key_variations(last.args.key)[i]] # NaN}

Earliest(S) == CHOOSE i \in S : \A j \in S : i <= j

\* C13 as stated: the resolver returns the first non-missing value among the
\* spellings identity, lower, upper, underscore-stripped, title-cased, and the
\* default only when no spelling holds a non-missing value.
C13_FirstNonMissingAmongSpellings ==
    IsResolve =>
        /\ last.ok
        /\ last.result =
              IF ValuedSpellings = {} THEN last.args.default
              ELSE latest_bs[key_variations(last.args.key)[Earliest(ValuedSpellings)]]

\* C13 amended: the resolver takes the first spelling, in the order identity,
\* lower, upper, underscore-stripped, title-cased, that the snapshot names; it
\* returns the value under that spelling when it is non-missing and the
\* default when it is missing or when the snapshot names no spelling.
C13_FirstPresentSpellingDecides ==
    IsResolve =>
        /\ last.ok
        /\ key_variations(last.args.key) =
              <<last.args.key, lower(last.args.key), upper(last.args.key),
                strip_underscore(last.args.key), title(last.args.key)>>
        /\ PresentSpellings = {} => last.result = last.args.default
        /\ \A i \in PresentSpellings :
              (\A j \in PresentSpellings : i <= j) =>
                  LET value == latest_bs[key_variations(last.args.key)[i]]
                  IN  last.result = IF value # NaN THEN value ELSE last.args.default

\* the first spelling found is null, a later spelling holds a value, and the
\* resolver returns the default
C13_Witness ==
    /\ IsResolve
    /\ last.ok
    /\ last.args.key = "Total_Assets"
    /\ last.args.default = Rat(-1, 1)
    /\ "Total_Assets" \notin DOMAIN latest_bs
    /\ "total_assets" \in DOMAIN latest_bs
    /\ latest_bs["total_assets"] = NaN
    /\ "TOTAL_ASSETS" \in DOMAIN latest_bs
    /\ latest_bs["TOTAL_ASSETS"] = Rat(1, 1)
    /\ last.result = Rat(-1, 1)

\* the first value of a sequence that is not 0, its last value when all are 0
FirstNonZero(values) ==
    IF \E i \in 1 .. Len(values) : values[i] # Zero
    THEN values[Earliest({i \in 1 .. Len(values) : values[i] # Zero})]
    ELSE values[Len(values)]

\* C15: the book equity of calculate_basic_nav is the first non-zero value of
\* resolve(total_equity), resolve(shareholders_equity),
\* resolve(stockholders_equity), total_assets - total_liabilities; an equity
\* of exactly 0 is passed over like an absent one.
C15_BookEquityFirstNonZero ==
    IsBasic =>
        /\ last.ok
        /\ last.result.book_value_equity =
              FirstNonZero(<<get_value_safe(latest_bs, "total_equity", Zero),
                             get_value_safe(latest_bs, "shareholders_equity", Zero),
                             get_value_safe(latest_bs, "stockholders_equity", Zero),
                             FSub(last.result.total_assets,
                                  last.result.total_liabilities)>>)

\* total equity is 0, shareholders' equity is null, and the third name wins
\* over assets minus liabilities
C15_Witness ==
    /\ IsBasic
    /\ last.ok
    /\ {"total_equity", "shareholders_equity", "stockholders_equity"} \subseteq DOMAIN latest_bs
    /\ latest_bs["total_equity"] = Zero
    /\ latest_bs["shareholders_equity"] = NaN
    /\ latest_bs["stockholders_equity"] = Rat(1, 1)
    /\ FSub(last.result.total_assets, last.result.total_liabilities) = Zero
    /\ last.result.book_value_equity = Rat(1, 1)

\* the balance sheet cut to its latest period
FirstRowOnly == [cols |-> balance_sheet.cols, rows |-> <<balance_sheet.rows[1]>>]

\* C19: on a balance sheet of several periods every valuation reads the first
\* row only: its result is the result on the balance sheet cut to its first
\* row, whatever the later rows hold.
C19_FirstSnapshotOnly ==
    /\ latest_bs = balance_sheet.rows[1]
    /\ IsBasic =>
          last = Call("calculate_basic_nav", last.args,
                      calculate_basic_nav(FirstRowOnly.rows[1], shares_outstanding))
    /\ IsMnav =>
          last = Call("calculate_mnav_with_fair_value", last.args,
                      calculate_mnav_with_fair_value(
                          FirstRowOnly.rows[1], shares_outstanding,
                          last.args.property_fair_value, last.args.property_book_value,
                          last.args.deferred_tax_rate, last.args.minority_interest))

\* a valuation of a balance sheet whose earlier period differs in every field
C19_Witness ==
    /\ IsBasic
    /\ last.ok
    /\ Len(balance_sheet.rows) = 2
    /\ \A c \in ColumnNames :
          balance_sheet.rows[1][c] = Rat(1, 1) /\ balance_sheet.rows[2][c] = Zero
    /\ last.result.total_assets = Rat(1, 1)

\* the outcome of a call made alone on the instance as it was constructed
alone(op, args) ==
    LET bs_row == get_latest_balance_sheet(balance_sheet)
    IN  CASE op = "calculate_basic_nav" -> calculate_basic_nav(bs_row, shares_outstanding)
          [] op = "calculate_mnav_with_fair_value" ->
                calculate_mnav_with_fair_value(
                    bs_row, shares_outstanding, args.property_fair_value,
                    args.property_book_value, args.deferred_tax_rate,
                    args.minority_interest)
          [] op = "calculate_premium_discount" ->
                calculate_premium_discount(args.current_price, args.mnav_per_share)

\* C18: when several threads call one instance concurrently and nothing else
\* writes the snapshot, every call returns, under every interleaving of the
\* threads' reads, the outcome it has when run alone; the instance stays as
\* constructed.
C18_ConcurrentCallsAsAlone ==
    /\ latest_bs = get_latest_balance_sheet(balance_sheet)
    /\ \A t \in Threads :
          threads[t].pc = "done" =>
              threads[t].result = alone(threads[t].op, threads[t].args)

\* one thread has returned a valuation with a supplied minority interest
\* while another, which reads the snapshot's own, is between two of its reads
C18_Witness ==
    \E t, u \in Threads :
        /\ threads[t].pc = "done"
        /\ threads[t].op = "calculate_mnav_with_fair_value"
        /\ threads[t].args.minority_interest = Zero
        /\ threads[t].result.ok
        /\ threads[t].result.result.minority_interest = Zero
        /\ threads[u].pc = "running"
        /\ threads[u].op = "calculate_mnav_with_fair_value"
        /\ threads[u].args.minority_interest = None
        /\ DOMAIN threads[u].locals = {"total_assets", "total_liabilities"}
        /\ latest_bs["minority_interest"] # Zero

\* C28: compare_multiple_valuations is all-or-nothing: when any scenario value
\* of the map is <= 0 the call fails with the error of
\* calculate_premium_discount and returns no rows, not even those of the
\* scenarios before the offending one.
C28_CompareAllOrNothing ==
    (IsCompare /\ ~AllPositive(last.args.scenarios)) =>
        /\ ~last.ok
        /\ last.result = None
        /\ \E i \in 1 .. Len(last.args.scenarios) :
              /\ NonPositive(last.args.scenarios[i][2])
              /\ last.err = calculate_premium_discount(last.args.current_price,
                                                       last.args.scenarios[i][2]).err
              /\ last.err = "ValueError: mNAV per share must be positive"

\* a valid scenario precedes the offending one and the call still fails
C28_Witness ==
    /\ IsCompare
    /\ Len(last.args.scenarios) = 2
    /\ Positive(last.args.scenarios[1][2])
    /\ last.args.scenarios[2][2] = Zero
    /\ ~last.ok
    /\ last.result = None

\* C29: without a fair-value adjustment and without a minority-interest
\* argument, calculate_mnav_with_fair_value returns
\* mnav = calculate_basic_nav().nav - resolved minority_interest; the two
\* totals are equal exactly when the snapshot's minority interest is 0 or
\* missing.
C29_MnavIsNavLessMinority ==
    (IsMnav /\ NoAdjustment) =>
        LET basic == calculate_basic_nav(latest_bs, shares_outstanding)
        IN  /\ last.ok
            /\ basic.ok
            /\ last.result.mnav = FSub(basic.result.nav, Resolved("minority_interest"))
            /\ (last.result.mnav = basic.result.nav)
                  <=> (Missing("minority_interest") \/ latest_bs["minority_interest"] = Zero)

\* a snapshot with a minority interest: the two totals differ by it
C29_Witness ==
    /\ IsMnav
    /\ NoAdjustment
    /\ last.ok
    /\ ~Missing("minority_interest")
    /\ latest_bs["minority_interest"] = Rat(1, 1)
    /\ Resolved("total_assets") = Rat(1, 1)
    /\ Resolved("total_liabilities") = Zero
    /\ calculate_basic_nav(latest_bs, shares_outstanding).result.nav = Rat(1, 1)
    /\ last.result.mnav = Zero

\* C30: a supplied minority_interest argument, 0 included, replaces the
\* snapshot's minority_interest field in the computation; the field is used
\* only when the argument is not supplied.
C30_MinorityArgumentReplacesField ==
    IsMnav =>
        LET r == last.result
            used == IF last.args.minority_interest # None
                    THEN last.args.minority_interest
                    ELSE Resolved("minority_interest")
        IN  /\ last.ok
            /\ r.minority_interest = used
            /\ r.mnav = FSub(FSub(FSub(r.adjusted_assets, r.total_liabilities), used),
                             r.deferred_tax_adjustment)

\* an argument of 0 against a snapshot field of 1
C30_Witness ==
    /\ IsMnav
    /\ last.ok
    /\ last.args.minority_interest = Zero
    /\ ~Missing("minority_interest")
    /\ latest_bs["minority_interest"] = Rat(1, 1)
    /\ last.result.minority_interest = Zero
    /\ last.result.mnav = FSub(last.result.adjusted_assets, last.result.total_liabilities)

IsAnalysis == last.op = "get_mnav_analysis"

IsSetup == last.op = "setup_mnav_calculator"

BothSupplied == last.args.property_fair_value # None /\ last.args.property_book_value # None

\* what the analysis is when computed from the per-share value ref of valuation
AnalysisFrom(valuation, ref) ==
    /\ last.ok
    /\ last.result.mnav_data = valuation
    /\ last.result.premium_data =
          calculate_premium_discount(last.args.current_price, ref).result
    /\ last.result.historical_mnav = calculate_historical_mnav(price_data, ref, "close").result
    /\ Len(last.result.summary) > 0

\* C21: after a successful setup, get_mnav_analysis without both fair value
\* and book value returns a complete analysis (valuation, premium data,
\* historical series, summary) computed from the basic NAV per share whenever
\* that value is positive; with both supplied it uses the fair-value-adjusted
\* mNAV per share.
C21_AnalysisFromEitherValuation ==
    (IsAnalysis /\ constructed) =>
        LET basic == calculate_basic_nav(latest_bs, shares_outstanding).result
            adjusted == calculate_mnav_with_fair_value(
                            latest_bs, shares_outstanding, last.args.property_fair_value,
                            last.args.property_book_value, last.args.deferred_tax_rate,
                            None).result
        IN  /\ (~BothSupplied /\ Positive(basic.nav_per_share))
                  => AnalysisFrom(basic, basic.nav_per_share)
            /\ (BothSupplied /\ Positive(adjusted.mnav_per_share))
                  => AnalysisFrom(adjusted, adjusted.mnav_per_share)

\* C27: get_mnav_analysis fails with an error whenever no successful
\* setup_mnav_calculator preceded it; setup_mnav_calculator fails when the
\* balance sheet is missing or empty or the share count is <= 0; a failed
\* setup leaves the indicator as it was: without a calculator, or with the
\* calculator installed before; only a successful setup installs one.
C27_SetupBeforeAnalysis ==
    [][ /\ (IsAnalysis' /\ ~constructed)
              => /\ ~last'.ok
                 /\ last'.err = "ValueError: Please call setup_mnav_calculator() first"
        /\ IsSetup'
              => /\ (fundamental_data = None \/ NonPositive(last'.args.shares_outstanding))
                        => ~last'.ok
                 /\ (fundamental_data # None /\ empty(fundamental_data)) => ~last'.ok
                 /\ ~last'.ok => UNCHANGED <<constructed, balance_sheet,
                                             shares_outstanding, latest_bs>>
                 /\ last'.ok => /\ constructed'
                                /\ balance_sheet' = fundamental_data
                                /\ shares_outstanding' = last'.args.shares_outstanding
        /\ (constructed' # constructed) => (IsSetup' /\ last'.ok)
      ]_vars

\* a setup with a share count of 0 fails on an indicator that holds a
\* calculator, and the calculator is still there
C27_Witness ==
    /\ IsSetup
    /\ ~last.ok
    /\ last.args.shares_outstanding = Zero
    /\ constructed
    /\ balance_sheet = fundamental_data
    /\ Positive(shares_outstanding)

Fetching == fetch.pc = "loop"

Fetched == fetch.pc = "done"

\* the requests of the call, in order
Requests == SelectSeq(trace, LAMBDA ev : ev.ev = "request")

\* the place of a provider in the order of preference of the call
Rank(name) ==
    CHOOSE i \in 1 .. Len(fetch.providers_to_try) : fetch.providers_to_try[i] = name

\* a step that contacts a provider
Contacts == Len(trace') > Len(trace)

\* the call has returned a frame fetched from a provider
ReturnedData == Fetched /\ fetch.result.ok /\ fetch.result.result.source # "sample"

\* C22: get_historical_data tries the providers in the order polygon, fmp,
\* yfinance, or the one provider passed as argument; it comes to a later
\* provider only when the attempts on the earlier one are over; it returns the
\* data of the first successful non-empty fetch and contacts no provider
\* afterwards.
C22_ProvidersInOrder ==
    /\ [](~(fetch.pc = "idle") =>
            /\ fetch.providers_to_try =
                  IF fetch.provider # "" THEN <<fetch.provider>>
                  ELSE <<"polygon", "fmp", "yfinance">>
            /\ \A i \in 1 .. Len(Requests) :
                  /\ \E k \in 1 .. Len(fetch.providers_to_try) :
                        Requests[i].provider = fetch.providers_to_try[k]
                  /\ i = 1 => Requests[i].attempt = 0
                  /\ i > 1 =>
                        \/ /\ Requests[i].provider = Requests[i - 1].provider
                           /\ Requests[i].attempt = Requests[i - 1].attempt + 1
                        \/ /\ Rank(Requests[i].provider) > Rank(Requests[i - 1].provider)
                           /\ Requests[i].attempt = 0
            /\ ReturnedData =>
                  /\ Len(Requests) > 0
                  /\ fetch.result.result.source = Requests[Len(Requests)].provider
                  /\ fetch.result.result.attempt = Requests[Len(Requests)].attempt)
    /\ [][ /\ Contacts => Fetching
           /\ Fetched => (trace' = trace \/ fetch' = NoFetch)
         ]_vars

\* the third provider answers on its second attempt
C22_Witness ==
    /\ ReturnedData
    /\ fetch.provider = ""
    /\ fetch.result.result.source = "yfinance"
    /\ fetch.result.result.attempt = 1
    /\ Len(Requests) = 4
    /\ Requests[1].provider = "polygon"
    /\ Requests[2].provider = "fmp"

\* the number of requests the call has sent to a provider
AttemptsOn(name) == Len(SelectSeq(Requests, LAMBDA ev : ev.provider = name))

\* C23: get_historical_data makes at most max_retries attempts per provider,
\* so at most (number of providers) x max_retries in all, and every call ends,
\* with data returned or an exception raised, whatever the providers answer.
C23_BoundedAttemptsAndTermination ==
    /\ [](~(fetch.pc = "idle") =>
            /\ \A k \in 1 .. Len(fetch.providers_to_try) :
                  AttemptsOn(fetch.providers_to_try[k]) <= fetch.max_retries
            /\ Len(Requests) <= Len(fetch.providers_to_try) * fetch.max_retries
            /\ Fetched => (fetch.result.ok \/ fetch.result.err # None))
    /\ (Fetching ~> Fetched)

\* every provider has failed max_retries times and the call has ended
C23_Witness ==
    /\ Fetched
    /\ ~fetch.result.ok
    /\ fetch.max_retries = MaxRetries
    /\ Len(fetch.providers_to_try) = 3
    /\ Len(Requests) = 3 * MaxRetries

\* the call is over and no provider has delivered a frame
AllProvidersFailed == Fetched /\ ~demo_mode(use_sample_data) /\ ~ReturnedData

\* C24: when all providers fail, the call returns generated sample data and
\* raises nothing if fallback_to_sample is true, and raises the error of the
\* last failed provider attempt if it is false, for every max_retries >= 0 and
\* every provider list.
C24_FallbackOrLastError ==
    AllProvidersFailed =>
        IF fetch.fallback_to_sample
        THEN fetch.result = Return(SampleData)
        ELSE /\ ~fetch.result.ok
             /\ Len(Requests) > 0
             /\ fetch.result.err.type # "TypeError"
             /\ fetch.result.err.provider = Requests[Len(Requests)].provider
             /\ fetch.result.err.attempt = Requests[Len(Requests)].attempt

\* C25: a fetcher created with use_sample_data = true returns sample data from
\* get_historical_data without a request to any provider and without a delay.
C25_DemoModeContactsNobody ==
    use_sample_data =>
        /\ trace = <<>>
        /\ ~Fetching
        /\ Fetched => fetch.result = Return(SampleData)

\* a call in demo mode that would otherwise have raised
C25_Witness ==
    /\ use_sample_data
    /\ Fetched
    /\ fetch.max_retries = 0
    /\ ~fetch.fallback_to_sample
    /\ fetch.result.ok
    /\ fetch.result.result.source = "sample"

\* a step in which the call sends a request
RequestStep == Fetching /\ Contacts

\* the request of the step has failed: the call holds a new last_error
RequestFailed == RequestStep /\ fetch'.last_error # fetch.last_error

\* the call is through with the provider of the step
MovedOn == fetch'.p = fetch.p + 1 /\ fetch'.attempt = 0

\* the call stays on the provider of the step for another attempt
Retried == fetch'.pc = "loop" /\ fetch'.p = fetch.p /\ fetch'.attempt = fetch.attempt + 1

\* what a step that sends a request adds to the trace: a sleep of retry_delay
\* before a retry, nothing before a provider's first attempt
SleepOnlyBeforeRetry ==
    trace' = trace
             \o (IF fetch.attempt > 0
                 THEN <<[ev |-> "sleep", delay |-> fetch.retry_delay]>>
                 ELSE <<>>)
             \o <<[ev |-> "request", provider |-> fetch.providers_to_try[fetch.p],
                   attempt |-> fetch.attempt]>>

\* C26 as stated: an error mentioning an API key or credentials ends the
\* attempts on the provider at once and moves to the next provider; a
\* rate-limit error, an empty result or any other error is retried on the same
\* provider, after a delay of retry_delay, until max_retries attempts have been
\* made; the delay occurs only before a retry.
C26_KeyErrorsLeaveOthersRetry ==
    [][ RequestStep =>
            /\ SleepOnlyBeforeRetry
            /\ RequestFailed =>
                  IF fetch'.last_error.api_key THEN MovedOn
                  ELSE IF fetch.attempt + 1 < fetch.max_retries THEN Retried
                  ELSE MovedOn
      ]_vars

\* C26 amended: an error that mentions an API key or credentials and does not
\* mention a rate limit ends the attempts on the provider at once and moves to
\* the next provider; a rate-limit error (also one that mentions an API key or
\* credentials), an empty result or any other error is retried on the same
\* provider, after a delay of retry_delay, until max_retries attempts have been
\* made; the delay occurs only before a retry.
C26_RateLimitBeforeKey ==
    [][ RequestStep =>
            /\ SleepOnlyBeforeRetry
            /\ RequestFailed =>
                  IF fetch'.last_error.api_key /\ ~fetch'.last_error.rate_limit THEN MovedOn
                  ELSE IF fetch.attempt + 1 < fetch.max_retries THEN Retried
                  ELSE MovedOn
      ]_vars

\* the first request has failed with an error that mentions both a rate
\* limit and an API key, and the call is about to retry the same provider
C26_Witness ==
    /\ Fetching
    /\ fetch.p = 1
    /\ fetch.attempt = 1
    /\ fetch.last_error.provider = fetch.providers_to_try[1]
    /\ fetch.last_error.attempt = 0
    /\ fetch.last_error.api_key
    /\ fetch.last_error.rate_limit
    /\ trace = <<[ev |-> "request", provider |-> "polygon", attempt |-> 0]>>

================================================================================
